---- MODULE Spec2Model ----
(***************************************************************************)
(* Pipeline monitoring dashboard: the metrics collector                    *)
(* (src/src/collectors/metrics_collector.py), the tables it writes         *)
(* (src/src/models/database.py) and the read-side queries and the POST     *)
(* route of src/src/api/routes.py, as a state machine.                     *)
(*                                                                         *)
(* Representation.  Times are integer seconds.  A Python value is a record *)
(* [t, v, s]: its type name, its number and (for a short string) its       *)
(* characters; a long text (an error message) is known by its length v     *)
(* only.  A quality score is an integer number of hundredths (95 is 0.95), *)
(* a gauge an integer percentage.  The result of SQL avg() and of a Python *)
(* float division is an exact fraction [n, d] in lowest terms; binary      *)
(* floating-point rounding is not modelled.  The column created_at of      *)
(* pipeline_executions is left out: no operation reads it.                 *)
(***************************************************************************)
EXTENDS Integers, Sequences, FiniteSets, TLC

VARIABLES
    executions,      \* table pipeline_executions: committed rows, in insertion order
    quality_metrics, \* table data_quality_metrics: committed rows
    system_metrics,  \* table system_metrics: committed rows
    session,         \* the collector's session: objects added and not yet committed
    pc,              \* the collector's position inside collect_system_metrics
    metrics,         \* collect_system_metrics: the local list `metrics` still to add
    now,             \* datetime.utcnow()
    ret,             \* the call that has returned: its name, its arguments and what it
                     \* returned or raised, until the caller has taken it
    prev,            \* the listing request before the last one, when no write came between
    workers,         \* the workers that record concurrently, each with a collector and
                     \* a session of its own: position, session, result
    reader,          \* a summary request in progress: its position and what its
                     \* sub-queries have returned so far
    handles          \* the sessions got from get_session(), by their holder: "open"
                     \* from get_session() until close()

vars == <<executions, quality_metrics, system_metrics, session, pc, metrics, now, ret, prev,
          workers, reader, handles>>

\* timedelta(days=1) and timedelta(hours=1), in seconds
Day == 86400
Hour == 3600

----------------------------------------------------------------------------
(* Python values *)

PyNone == [t |-> "NoneType", v |-> 0, s |-> <<>>]
PyInt(n) == [t |-> "int", v |-> n, s |-> <<>>]
PyFloat(n) == [t |-> "float", v |-> n, s |-> <<>>]
PyStr(cs) == [t |-> "str", v |-> Len(cs), s |-> cs]
PyText(n) == [t |-> "str", v |-> n, s |-> <<>>]
PyDateTime(n) == [t |-> "datetime", v |-> n, s |-> <<>>]

\* a datetime that carries a UTC offset: v is its wall-clock reading
PyDateTimeTz(n) == [t |-> "datetime", v |-> n, s |-> <<"+00:00">>]
PyDateTimeEast(n) == [t |-> "datetime", v |-> n, s |-> <<"+01:00">>]

\* utcoffset() in seconds, and the instant an aware datetime denotes; the
\* comparison and the difference of two aware datetimes are those of their
\* instants, those of two naive ones are those of their readings
UtcOffset(x) == IF x.s = <<"+01:00">> THEN Hour ELSE 0
Instant(x) == x.v - UtcOffset(x)

\* end_time < start_time raises TypeError between a naive and an aware datetime
Comparable(a, b) == (a.s = <<>>) <=> (b.s = <<>>)
CompareError == "can't compare offset-naive and offset-aware datetimes"

\* Column(DateTime): the column keeps the reading of the clock and no offset
Naive(x) == IF x.t = "datetime" THEN PyDateTime(x.v) ELSE x

\* bool(x): None, 0, 0.0 and "" are false; a datetime is always true
Truthy(x) ==
    CASE x.t = "NoneType" -> FALSE
      [] x.t \in {"int", "float", "str"} -> x.v # 0
      [] OTHER -> TRUE

IsWhitespace(c) == c \in {" ", "\t", "\n"}

RECURSIVE LStrip(_)
LStrip(cs) ==
    IF cs # <<>> /\ IsWhitespace(Head(cs)) THEN LStrip(Tail(cs)) ELSE cs

RECURSIVE RStrip(_)
RStrip(cs) ==
    IF cs # <<>> /\ IsWhitespace(cs[Len(cs)])
    THEN RStrip(SubSeq(cs, 1, Len(cs) - 1))
    ELSE cs

\* str.strip()
Strip(cs) == RStrip(LStrip(cs))

\* error_message[:1000] of a text known by its length
MaxErrorLen == 1000
Slice(x) == PyText(IF x.v > MaxErrorLen THEN MaxErrorLen ELSE x.v)

----------------------------------------------------------------------------
(* The session of one MetricsCollector and the tables behind it *)

EmptySession == [executions |-> <<>>, quality |-> <<>>, system |-> <<>>]

\* session.add(obj): the object waits in the session, nothing is written
SessionAdd(sess, table, obj) ==
    [sess EXCEPT ![table] = Append(@, obj)]

\* a rollback that leaves the pending objects in the session
SessionRollback_Keep(sess) == sess

\* session.rollback(): the pending objects are dropped
SessionRollback(sess) == EmptySession

\* a key that does not advance
NextId_Fixed(table) == 1

\* INTEGER PRIMARY KEY on insert: one more than the largest id of the table
NextId(table) == IF table = <<>> THEN 1 ELSE table[Len(table)].id + 1

\* a commit that writes over the table what is pending
Flush_Overwrite(table, pending) ==
    IF pending = <<>> THEN table ELSE <<[pending[1] EXCEPT !.id = 1]>>

\* the INSERTs of a commit into one table: ids in insertion order
RECURSIVE Flush(_, _)
Flush(table, pending) ==
    IF pending = <<>>
    THEN table
    ELSE Flush(Append(table, [Head(pending) EXCEPT !.id = NextId(table)]), Tail(pending))

\* Column(DateTime, default=datetime.utcnow): set when the row is inserted
RECURSIVE Stamp(_, _)
Stamp(pending, ts) ==
    IF pending = <<>>
    THEN <<>>
    ELSE <<[Head(pending) EXCEPT !.timestamp = PyDateTime(ts)]>> \o Stamp(Tail(pending), ts)

Return(op, args, val) == [op |-> op, args |-> args, exc |-> "", msg |-> "", val |-> val]
Raise(op, args, exc, msg) == [op |-> op, args |-> args, exc |-> exc, msg |-> msg, val |-> PyNone]

----------------------------------------------------------------------------
(* MetricsCollector.record_pipeline_execution *)

IsInstanceInt(x) == x.t \in {"int", "bool"}
IsInstanceNumber(x) == x.t \in {"int", "bool", "float"}

ValidStatuses == {"success", "failed", "running"}

\* the validation without its comparison of end_time with start_time
ValidateExecution_NoOrderCheck(pipeline_name, status, start_time, end_time, records_processed) ==
    IF ~Truthy(pipeline_name) \/ Strip(pipeline_name.s) = <<>>
    THEN "Pipeline name cannot be empty"
    ELSE IF status \notin ValidStatuses
    THEN "Invalid status"
    ELSE IF start_time.t # "datetime"
    THEN "start_time must be a datetime object"
    ELSE IF end_time.t # "NoneType" /\ end_time.t # "datetime"
    THEN "end_time must be a datetime object or None"
    ELSE IF Truthy(end_time) /\ Truthy(start_time) /\ ~Comparable(end_time, start_time)
    THEN CompareError
    ELSE IF ~IsInstanceInt(records_processed) \/ records_processed.v < 0
    THEN "records_processed must be a non-negative integer"
    ELSE ""

\* the input validation: the message of the error raised, "" when none is
ValidateExecution(pipeline_name, status, start_time, end_time, records_processed) ==
    IF ~Truthy(pipeline_name) \/ Strip(pipeline_name.s) = <<>>
    THEN "Pipeline name cannot be empty"
    ELSE IF status \notin ValidStatuses
    THEN "Invalid status"
    ELSE IF start_time.t # "datetime"
    THEN "start_time must be a datetime object"
    ELSE IF end_time.t # "NoneType" /\ end_time.t # "datetime"
    THEN "end_time must be a datetime object or None"
    ELSE IF Truthy(end_time) /\ Truthy(start_time) /\ ~Comparable(end_time, start_time)
    THEN CompareError
    ELSE IF Truthy(end_time) /\ Truthy(start_time) /\ Instant(end_time) < Instant(start_time)
    THEN "end_time cannot be before start_time"
    ELSE IF ~IsInstanceInt(records_processed) \/ records_processed.v < 0
    THEN "records_processed must be a non-negative integer"
    ELSE ""

\* the subtraction with its operands exchanged
DurationSeconds_Swapped(start_time, end_time) ==
    IF Truthy(end_time) /\ Truthy(start_time)
    THEN PyFloat(Instant(start_time) - Instant(end_time))
    ELSE PyNone

\* duration_seconds = (end_time - start_time).total_seconds() when end_time is given
DurationSeconds(start_time, end_time) ==
    IF Truthy(end_time) /\ Truthy(start_time)
    THEN PyFloat(Instant(end_time) - Instant(start_time))
    ELSE PyNone

\* the type of the error the validation raises with message msg: the
\* comparison of line 76 raises TypeError, every other check ValueError
RaisedBy(msg) == IF msg = CompareError THEN "TypeError" ELSE "ValueError"

\* the PipelineExecution object built from validated arguments, as the store
\* keeps it
NewExecution(pipeline_name, status, start_time, end_time, records_processed, error_message) ==
    [id |-> 0,
     pipeline_name |-> Strip(pipeline_name.s),
     status |-> status,
     start_time |-> start_time.v,
     end_time |-> Naive(end_time),
     duration_seconds |-> DurationSeconds(start_time, end_time),
     records_processed |-> records_processed.v,
     error_message |-> IF Truthy(error_message) THEN Slice(error_message) ELSE PyNone]

\* one call of record_pipeline_execution on a collector whose session is sess:
\* what it returns or raises (ret) and the tables and the session after it
RecordExecutionCall(sess, pipeline_name, status, start_time, end_time, records_processed, error_message, commit_ok) ==
    LET args == [pipeline_name |-> pipeline_name, status |-> status,
                 start_time |-> start_time, end_time |-> end_time,
                 records_processed |-> records_processed,
                 error_message |-> error_message]
        op == "record_pipeline_execution"
        unchanged == [executions |-> executions, quality_metrics |-> quality_metrics,
                      system_metrics |-> system_metrics]
        msg == ValidateExecution(pipeline_name, status, start_time, end_time,
                                 records_processed)
        execution == NewExecution(pipeline_name, status, start_time, end_time,
                                  records_processed, error_message)
        added == SessionAdd(sess, "executions", execution)
        table == Flush(executions, added.executions)
    IN  IF msg # ""
        THEN \* raised before the try block: the session is not touched
             [ret |-> Raise(op, args, RaisedBy(msg), msg), tables |-> unchanged, session |-> sess]
        ELSE IF Truthy(error_message) /\ error_message.t # "str"
        THEN \* error_message[:1000] raises TypeError: except Exception
             [ret |-> Raise(op, args, "DatabaseError", "Failed to record pipeline execution"),
              tables |-> unchanged, session |-> SessionRollback(sess)]
        ELSE IF commit_ok
        THEN [ret |-> Return(op, args, table[Len(table)]),
              tables |-> [executions |-> table,
                          quality_metrics |-> Flush(quality_metrics, Stamp(added.quality, now)),
                          system_metrics |-> Flush(system_metrics, Stamp(added.system, now))],
              session |-> EmptySession]
        ELSE [ret |-> Raise(op, args, "DatabaseError", "Failed to record pipeline execution"),
              tables |-> unchanged, session |-> SessionRollback(added)]

\* the collector's record_pipeline_execution, called by its owner
RecordPipelineExecution(pipeline_name, status, start_time, end_time, records_processed, error_message, commit_ok) ==
    LET call == RecordExecutionCall(session, pipeline_name, status, start_time, end_time,
                                    records_processed, error_message, commit_ok)
    IN  /\ pc = "idle"
        /\ prev' = PyNone
        /\ ret' = call.ret
        /\ executions' = call.tables.executions
        /\ quality_metrics' = call.tables.quality_metrics
        /\ system_metrics' = call.tables.system_metrics
        /\ session' = call.session
        /\ UNCHANGED <<pc, metrics, now, workers, reader, handles>>

----------------------------------------------------------------------------
(* MetricsCollector.record_data_quality_metric *)

\* a score in hundredths: the float 0.95 is 95, the int 1 is 100
Hundredths(x) == IF x.t = "float" THEN x.v ELSE 100 * x.v

ValidateQuality(pipeline_name, metric_name, metric_value, threshold) ==
    IF ~Truthy(pipeline_name) \/ Strip(pipeline_name.s) = <<>>
    THEN "Pipeline name cannot be empty"
    ELSE IF ~Truthy(metric_name) \/ Strip(metric_name.s) = <<>>
    THEN "Metric name cannot be empty"
    ELSE IF ~IsInstanceNumber(metric_value)
            \/ Hundredths(metric_value) < 0 \/ Hundredths(metric_value) > 100
    THEN "metric_value must be a number between 0.0 and 1.0"
    ELSE IF ~IsInstanceNumber(threshold)
            \/ Hundredths(threshold) < 0 \/ Hundredths(threshold) > 100
    THEN "threshold must be a number between 0.0 and 1.0"
    ELSE ""

\* the comparison made strict
Passed_Strict(metric_value, threshold) == Hundredths(metric_value) > Hundredths(threshold)

\* passed = metric_value >= threshold
Passed(metric_value, threshold) == Hundredths(metric_value) >= Hundredths(threshold)

NewQualityMetric(pipeline_name, metric_name, metric_value, threshold) ==
    [id |-> 0,
     pipeline_name |-> Strip(pipeline_name.s),
     metric_name |-> Strip(metric_name.s),
     metric_value |-> Hundredths(metric_value),
     threshold |-> Hundredths(threshold),
     passed |-> Passed(metric_value, threshold),
     timestamp |-> PyNone]

RecordDataQualityMetric(pipeline_name, metric_name, metric_value, threshold, commit_ok) ==
    LET args == [pipeline_name |-> pipeline_name, metric_name |-> metric_name,
                 metric_value |-> metric_value, threshold |-> threshold]
        op == "record_data_quality_metric"
        msg == ValidateQuality(pipeline_name, metric_name, metric_value, threshold)
        metric == NewQualityMetric(pipeline_name, metric_name, metric_value, threshold)
        added == SessionAdd(session, "quality", metric)
        table == Flush(quality_metrics, Stamp(added.quality, now))
    IN  /\ pc = "idle"
        /\ prev' = PyNone
        /\ UNCHANGED <<pc, metrics, now, workers, reader, handles>>
        /\ IF msg # ""
           THEN /\ ret' = Raise(op, args, "ValueError", msg)
                /\ UNCHANGED <<executions, quality_metrics, system_metrics, session>>
           ELSE IF commit_ok
           THEN /\ executions' = Flush(executions, added.executions)
                /\ quality_metrics' = table
                /\ system_metrics' = Flush(system_metrics, Stamp(added.system, now))
                /\ session' = EmptySession
                /\ ret' = Return(op, args, table[Len(table)])
           ELSE /\ session' = SessionRollback(added)
                /\ ret' = Raise(op, args, "DatabaseError", "Failed to record data quality metric")
                /\ UNCHANGED <<executions, quality_metrics, system_metrics>>

----------------------------------------------------------------------------
(* MetricsCollector.collect_system_metrics, step by step: the three reads,  *)
(* one session.add per metric, the commit.                                  *)

\* what a psutil read gives: a percentage, or an exception
Raises == [t |-> "raise", v |-> 0, s |-> <<>>]

\* the guard without its range check: only an exception gives 0.0
GaugeValue_NoRangeCheck(read) ==
    IF read.t = "raise" THEN 0 ELSE read.v

\* one guarded read: 0.0 when the read raises or is outside 0..100
GaugeValue(read) ==
    IF read.t = "raise" \/ read.v < 0 \/ read.v > 100 THEN 0 ELSE read.v

NewSystemMetric(metric_type, value) ==
    [id |-> 0, metric_type |-> metric_type, metric_value |-> value, unit |-> "%",
     timestamp |-> PyNone]

\* lines 184-219: the reads and the list `metrics`
CollectRead(cpu, memory, disk) ==
    /\ pc = "idle"
    /\ pc' = "add"
    /\ metrics' = [cpu |-> GaugeValue(cpu), memory |-> GaugeValue(memory),
                   disk |-> GaugeValue(disk),
                   reads |-> [cpu |-> cpu, memory |-> memory, disk |-> disk],
                   todo |-> <<NewSystemMetric("cpu", GaugeValue(cpu)),
                              NewSystemMetric("memory", GaugeValue(memory)),
                              NewSystemMetric("disk", GaugeValue(disk))>>]
    /\ UNCHANGED <<executions, quality_metrics, system_metrics, session, now, ret, prev, workers, reader, handles>>

\* the add of a session that commits each object as it is added
CollectAdd_Autocommit ==
    /\ pc = "add"
    /\ system_metrics' = Flush(system_metrics, Stamp(<<Head(metrics.todo)>>, now))
    /\ metrics' = [metrics EXCEPT !.todo = Tail(@)]
    /\ pc' = IF Tail(metrics.todo) = <<>> THEN "commit" ELSE "add"
    /\ UNCHANGED <<executions, quality_metrics, session, now, ret, prev, workers, reader, handles>>

\* lines 221-222: for metric in metrics: self.session.add(metric)
CollectAdd ==
    /\ pc = "add"
    /\ session' = SessionAdd(session, "system", Head(metrics.todo))
    /\ metrics' = [metrics EXCEPT !.todo = Tail(@)]
    /\ pc' = IF Tail(metrics.todo) = <<>> THEN "commit" ELSE "add"
    /\ UNCHANGED <<executions, quality_metrics, system_metrics, now, ret, prev, workers, reader, handles>>

\* lines 224-238: the commit, and the rollback when it fails
CollectCommit(commit_ok) ==
    LET op == "collect_system_metrics"
        table == Flush(system_metrics, Stamp(session.system, now))
    IN  /\ pc = "commit"
        /\ pc' = "idle"
        /\ prev' = PyNone
        /\ metrics' = PyNone
        /\ UNCHANGED <<now, workers, reader, handles>>
        /\ IF commit_ok
           THEN /\ executions' = Flush(executions, session.executions)
                /\ quality_metrics' = Flush(quality_metrics, Stamp(session.quality, now))
                /\ system_metrics' = table
                /\ session' = EmptySession
                /\ ret' = Return(op, metrics.reads,
                                 [cpu |-> metrics.cpu, memory |-> metrics.memory,
                                  disk |-> metrics.disk, timestamp |-> now])
           ELSE /\ session' = SessionRollback(session)
                /\ ret' = Raise(op, metrics.reads, "DatabaseError",
                                "Failed to collect system metrics")
                /\ UNCHANGED <<executions, quality_metrics, system_metrics>>

----------------------------------------------------------------------------
(* The read side: src/src/api/routes.py.  A route returns a response and    *)
(* never raises: ret.exc is the type of the error the response reports ("" *)
(* for a 2xx response) and ret.val its status code and body.                *)

Respond(op, args, code, body) ==
    [op |-> op, args |-> args, exc |-> "", msg |-> "", val |-> [status_code |-> code, body |-> body]]

\* handle_error(e, status_code): the JSON error body and the status
HandleError(op, args, type, code) ==
    [op |-> op, args |-> args, exc |-> type, msg |-> "", val |-> [status_code |-> code, body |-> PyNone]]

Digit == [c \in {"0", "1", "2", "3", "4", "5", "6", "7", "8", "9"} |->
            CASE c = "0" -> 0 [] c = "1" -> 1 [] c = "2" -> 2 [] c = "3" -> 3
              [] c = "4" -> 4 [] c = "5" -> 5 [] c = "6" -> 6 [] c = "7" -> 7
              [] c = "8" -> 8 [] OTHER -> 9]

IsNumeral(cs) == cs # <<>> /\ \A i \in 1..Len(cs) : cs[i] \in DOMAIN Digit

RECURSIVE Numeral(_)
Numeral(cs) ==
    IF cs = <<>> THEN 0 ELSE 10 * Numeral(SubSeq(cs, 1, Len(cs) - 1)) + Digit[cs[Len(cs)]]

\* int(request.args.get(name, default)) and the range check that follows: the
\* number, or -1 when ValidationError is raised (every accepted number is >= 1)
QueryParam(param, default, lo, hi) ==
    LET text == Strip(param.s)
    IN  IF param = PyNone
        THEN default
        ELSE IF ~IsNumeral(text)
        THEN -1
        ELSE IF Numeral(text) < lo \/ Numeral(text) > hi
        THEN -1
        ELSE Numeral(text)

RECURSIVE GCD(_, _)
GCD(a, b) == IF b = 0 THEN a ELSE GCD(b, a % b)

\* the fraction n/d in lowest terms (n >= 0, d > 0)
Fraction(n, d) == [n |-> n \div GCD(n, d), d |-> d \div GCD(n, d)]

RECURSIVE SumDurations(_)
SumDurations(rows) ==
    IF rows = <<>> THEN 0 ELSE Head(rows).duration_seconds.v + SumDurations(Tail(rows))

HasDuration(e) == e.duration_seconds # PyNone

\* SQL avg(duration_seconds): over the rows whose duration is not NULL; NULL when none is
SqlAvg(rows) ==
    LET known == SelectSeq(rows, HasDuration)
    IN  IF known = <<>> THEN PyNone ELSE Fraction(SumDurations(known), Len(known))

\* float(avg) if avg else None
FloatOrNone(avg) == IF avg = PyNone \/ avg.n = 0 THEN PyNone ELSE avg

IsSuccess(e) == e.status = "success"

\* .distinct() over pipeline_name
PipelineNames == {executions[i].pipeline_name : i \in 1..Len(executions)}

\* the orders in which the store may return a set of values
Orderings(S) ==
    {order \in [1..Cardinality(S) -> S] : \A i, j \in 1..Cardinality(S) : order[i] = order[j] => i = j}

\* the order_by ascending: a row of the pipeline with the least start_time
LatestCandidates_Oldest(name) ==
    {e \in {executions[i] : i \in 1..Len(executions)} :
        /\ e.pipeline_name = name
        /\ \A i \in 1..Len(executions) :
              executions[i].pipeline_name = name => executions[i].start_time >= e.start_time}

\* .filter(pipeline_name == name).order_by(desc(start_time)).first(): a row of
\* the pipeline with the greatest start_time; the store picks among equals
LatestCandidates(name) ==
    {e \in {executions[i] : i \in 1..Len(executions)} :
        /\ e.pipeline_name = name
        /\ \A i \in 1..Len(executions) :
              executions[i].pipeline_name = name => executions[i].start_time <= e.start_time}

\* the filter with an upper end at the time of the request
StatsRows_UpToNow(name, cutoff_date) ==
    SelectSeq(executions, LAMBDA e : /\ e.pipeline_name = name
                                     /\ e.start_time >= cutoff_date /\ e.start_time <= now)

\* the statistics query of one pipeline: filter(pipeline_name == name, start_time >= cutoff_date)
StatsRows(name, cutoff_date) ==
    SelectSeq(executions, LAMBDA e : e.pipeline_name = name /\ e.start_time >= cutoff_date)

\* the rate as a share of 1 instead of a percentage
Rate_PerUnit(success_count, total_runs) ==
    IF total_runs > 0 THEN Fraction(success_count, total_runs) ELSE Fraction(0, 1)

\* success_count / total_runs * 100
Rate(success_count, total_runs) ==
    IF total_runs > 0 THEN Fraction(success_count * 100, total_runs) ELSE Fraction(0, 1)

\* one element of pipeline_list
PipelineEntry(name, latest, cutoff_date) ==
    LET rows == StatsRows(name, cutoff_date)
        total_runs == Len(rows)
        success_count == Len(SelectSeq(rows, IsSuccess))
        avg_duration == SqlAvg(rows)
    IN  [name |-> name,
         latest_status |-> latest.status,
         latest_execution_time |-> latest.start_time,
         total_runs |-> total_runs,
         success_count |-> success_count,
         success_rate |-> Rate(success_count, total_runs),
         avg_duration_seconds |-> FloatOrNone(avg_duration)]

RECURSIVE PipelineList(_, _, _)
PipelineList(order, latest, cutoff_date) ==
    IF order = <<>>
    THEN <<>>
    ELSE <<PipelineEntry(Head(order), latest[Head(order)], cutoff_date)>>
         \o PipelineList(Tail(order), latest, cutoff_date)

MinDays == 1
MaxDays == 365
DefaultDays == 7

\* GET /api/pipelines; ret.args keeps, with the request, whether the store
\* answered and the cutoff_date computed (the time of the request when none was)
GetPipelines(days_param, db_ok) ==
    LET op == "get_pipelines"
        args == [days |-> days_param, db_ok |-> db_ok, cutoff_date |-> now]
        days == QueryParam(days_param, DefaultDays, MinDays, MaxDays)
        cutoff_date == now - days * Day
    IN  /\ UNCHANGED <<executions, quality_metrics, system_metrics, session, pc, metrics, now, workers, reader, handles>>
        /\ prev' = PyNone
        /\ IF days = -1
           THEN ret' = HandleError(op, args, "ValidationError", 400)
           ELSE IF ~db_ok
           THEN ret' = HandleError(op, args, "DatabaseError", 503)
           ELSE \E order \in Orderings(PipelineNames) :
                \E latest \in {f \in [PipelineNames -> {executions[i] : i \in 1..Len(executions)}] :
                                 \A n \in PipelineNames : f[n] \in LatestCandidates(n)} :
                    ret' = Respond(op, [args EXCEPT !.cutoff_date = cutoff_date], 200,
                                   [pipelines |-> PipelineList(order, latest, cutoff_date),
                                    count |-> Cardinality(PipelineNames)])

\* round(x, 2), as a number of hundredths: to the nearest, a tie to the even one
Round2(x) ==
    LET q == (x.n * 100) \div x.d
        r == (x.n * 100) % x.d
    IN  IF 2 * r < x.d THEN q
        ELSE IF 2 * r > x.d THEN q + 1
        ELSE IF q % 2 = 0 THEN q ELSE q + 1

\* the summary with its pipeline count taken over the window only
Summary_WindowedPipelineCount(cutoff_date, days) ==
    LET window == SelectSeq(executions, LAMBDA e : e.start_time >= cutoff_date)
        total_executions == Len(window)
        success_count == Len(SelectSeq(window, IsSuccess))
        success_rate == Rate(success_count, total_executions)
        avg_duration == SqlAvg(SelectSeq(window, IsSuccess))
        pipeline_count == Cardinality({window[i].pipeline_name : i \in 1..Len(window)})
    IN  [total_executions |-> total_executions,
         success_count |-> success_count,
         success_rate |-> Fraction(Round2(success_rate), 100),
         avg_duration_seconds |-> FloatOrNone(avg_duration),
         pipeline_count |-> pipeline_count,
         period_days |-> days]

\* query_summary: the four queries and the dictionary returned
Summary(cutoff_date, days) ==
    LET window == SelectSeq(executions, LAMBDA e : e.start_time >= cutoff_date)
        total_executions == Len(window)
        success_count == Len(SelectSeq(window, IsSuccess))
        success_rate == Rate(success_count, total_executions)
        avg_duration == SqlAvg(SelectSeq(window, IsSuccess))
        pipeline_count == Cardinality(PipelineNames)
    IN  [total_executions |-> total_executions,
         success_count |-> success_count,
         success_rate |-> Fraction(Round2(success_rate), 100),
         avg_duration_seconds |-> FloatOrNone(avg_duration),
         pipeline_count |-> pipeline_count,
         period_days |-> days]

\* GET /api/metrics/summary
GetMetricsSummary(days_param, db_ok) ==
    LET op == "get_metrics_summary"
        args == [days |-> days_param, db_ok |-> db_ok, cutoff_date |-> now]
        days == QueryParam(days_param, DefaultDays, MinDays, MaxDays)
        cutoff_date == now - days * Day
    IN  /\ UNCHANGED <<executions, quality_metrics, system_metrics, session, pc, metrics, now, workers, reader, handles>>
        /\ prev' = PyNone
        /\ IF days = -1
           THEN ret' = HandleError(op, args, "ValidationError", 400)
           ELSE IF ~db_ok
           THEN ret' = HandleError(op, args, "DatabaseError", 503)
           ELSE ret' = Respond(op, [args EXCEPT !.cutoff_date = cutoff_date], 200,
                               Summary(cutoff_date, days))

\* the rows of a table, as a set
RowsOf(table) == {table[i] : i \in 1..Len(table)}

\* an order_by that sorts nothing
DescendingOrders_Unsorted(rows) == Orderings(rows)

\* the orders the store may return for order_by(desc(start_time)): rows of
\* equal start_time come in any order
DescendingOrders(rows) ==
    {order \in Orderings(rows) :
        \A i, j \in 1..Cardinality(rows) : i < j => order[i].start_time >= order[j].start_time}

\* a limit that cuts nothing
Limit_Unbounded(order, n) == order

\* .limit(n).all()
Limit(order, n) == [i \in 1..(IF n < Len(order) THEN n ELSE Len(order)) |-> order[i]]

\* the dictionary made of one row
ExecutionDict(ex) ==
    [id |-> ex.id, status |-> ex.status, start_time |-> ex.start_time,
     end_time |-> ex.end_time, duration_seconds |-> ex.duration_seconds,
     records_processed |-> ex.records_processed, error_message |-> ex.error_message]

RECURSIVE ExecutionDicts(_)
ExecutionDicts(rows) ==
    IF Len(rows) = 0 THEN <<>> ELSE <<ExecutionDict(rows[1])>> \o ExecutionDicts(Tail(rows))

MinLimit == 1
MaxLimit == 1000
DefaultLimit == 100
DefaultListDays == 30

\* GET /api/pipelines/<pipeline_name>/executions
GetPipelineExecutions(pipeline_name, limit_param, days_param, db_ok) ==
    LET op == "get_pipeline_executions"
        args == [pipeline_name |-> pipeline_name, limit |-> limit_param, days |-> days_param,
                 db_ok |-> db_ok, cutoff_date |-> now]
        limit == QueryParam(limit_param, DefaultLimit, MinLimit, MaxLimit)
        days == QueryParam(days_param, DefaultListDays, MinDays, MaxDays)
        cutoff_date == now - days * Day
        matching == {e \in RowsOf(executions) :
                        e.pipeline_name = pipeline_name.s /\ e.start_time >= cutoff_date}
    IN  /\ UNCHANGED <<executions, quality_metrics, system_metrics, session, pc, metrics, now, prev, workers, reader, handles>>
        /\ IF ~Truthy(pipeline_name) \/ Strip(pipeline_name.s) = <<>>
           THEN ret' = HandleError(op, args, "ValidationError", 400)
           ELSE IF limit = -1 \/ days = -1
           THEN ret' = HandleError(op, args, "ValidationError", 400)
           ELSE IF ~db_ok
           THEN ret' = HandleError(op, args, "DatabaseError", 503)
           ELSE \E order \in DescendingOrders(matching) :
                    ret' = Respond(op, [args EXCEPT !.cutoff_date = cutoff_date], 200,
                                   [pipeline_name |-> pipeline_name.s,
                                    executions |-> ExecutionDicts(Limit(order, limit)),
                                    count |-> Len(Limit(order, limit))])

\* rows ordered by timestamp ascending
TimestampOrders_Reversed(rows) ==
    {order \in Orderings(rows) :
        \A i, j \in 1..Cardinality(rows) : i < j => order[i].timestamp.v <= order[j].timestamp.v}

\* the orders the store may return for order_by(desc(timestamp)): rows of equal
\* timestamp come in any order
TimestampOrders(rows) ==
    {order \in Orderings(rows) :
        \A i, j \in 1..Cardinality(rows) : i < j => order[i].timestamp.v >= order[j].timestamp.v}

\* the dictionary made of one quality row
QualityDict(metric) ==
    [value |-> metric.metric_value, threshold |-> metric.threshold,
     passed |-> metric.passed, timestamp |-> metric.timestamp.v]

RECURSIVE QualityDicts(_)
QualityDicts(rows) ==
    IF Len(rows) = 0 THEN <<>> ELSE <<QualityDict(rows[1])>> \o QualityDicts(Tail(rows))

\* quality_data: a key for each metric_name met in the loop, its list in the
\* order of the loop
QualityData(order) ==
    [name \in {order[i].metric_name : i \in 1..Len(order)} |->
        QualityDicts(SelectSeq(order, LAMBDA metric : metric.metric_name = name))]

\* GET /api/pipelines/<pipeline_name>/quality
GetPipelineQuality(pipeline_name, days_param, db_ok) ==
    LET op == "get_pipeline_quality"
        args == [pipeline_name |-> pipeline_name, days |-> days_param,
                 db_ok |-> db_ok, cutoff_date |-> now]
        days == QueryParam(days_param, DefaultDays, MinDays, MaxDays)
        cutoff_date == now - days * Day
        matching == {m \in RowsOf(quality_metrics) :
                        m.pipeline_name = pipeline_name.s /\ m.timestamp.v >= cutoff_date}
    IN  /\ UNCHANGED <<executions, quality_metrics, system_metrics, session, pc, metrics, now, workers, reader, handles>>
        /\ prev' = PyNone
        /\ IF ~Truthy(pipeline_name) \/ Strip(pipeline_name.s) = <<>>
           THEN ret' = HandleError(op, args, "ValidationError", 400)
           ELSE IF days = -1
           THEN ret' = HandleError(op, args, "ValidationError", 400)
           ELSE IF ~db_ok
           THEN ret' = HandleError(op, args, "DatabaseError", 503)
           ELSE \E order \in TimestampOrders(matching) :
                    ret' = Respond(op, [args EXCEPT !.cutoff_date = cutoff_date], 200,
                                   [pipeline_name |-> pipeline_name.s,
                                    quality_metrics |-> QualityData(order)])

\* rows ordered by timestamp descending
AscendingOrders_Descending(rows) ==
    {order \in Orderings(rows) :
        \A i, j \in 1..Cardinality(rows) : i < j => order[i].timestamp.v >= order[j].timestamp.v}

\* the orders the store may return for order_by(timestamp): rows of equal
\* timestamp come in any order
AscendingOrders(rows) ==
    {order \in Orderings(rows) :
        \A i, j \in 1..Cardinality(rows) : i < j => order[i].timestamp.v <= order[j].timestamp.v}

\* the dictionary made of one system row
SystemDict(metric) ==
    [value |-> metric.metric_value, unit |-> metric.unit, timestamp |-> metric.timestamp.v]

RECURSIVE SystemDicts(_)
SystemDicts(rows) ==
    IF Len(rows) = 0 THEN <<>> ELSE <<SystemDict(rows[1])>> \o SystemDicts(Tail(rows))

\* the keys system_data starts with
SystemTypes == {"cpu", "memory", "disk"}

\* the rows the query returns that the loop appends to the list of one key
TypedRows(metric_type, cutoff_time) ==
    {m \in RowsOf(system_metrics) : m.metric_type = metric_type /\ m.timestamp.v >= cutoff_time}

MinHours == 1
MaxHours == 168
DefaultHours == 24

\* GET /api/system/metrics.  The loop keeps, in each list, the order of the
\* query; that order is free among rows of equal timestamp only, so the lists
\* are any three ascending orders of the rows of their types.
GetSystemMetrics(hours_param, db_ok) ==
    LET op == "get_system_metrics"
        args == [hours |-> hours_param, db_ok |-> db_ok, cutoff_time |-> now]
        hours == QueryParam(hours_param, DefaultHours, MinHours, MaxHours)
        cutoff_time == now - hours * Hour
    IN  /\ UNCHANGED <<executions, quality_metrics, system_metrics, session, pc, metrics, now, workers, reader, handles>>
        /\ prev' = PyNone
        /\ IF hours = -1
           THEN ret' = HandleError(op, args, "ValidationError", 400)
           ELSE IF ~db_ok
           THEN ret' = HandleError(op, args, "DatabaseError", 503)
           ELSE \E cpu \in AscendingOrders(TypedRows("cpu", cutoff_time)),
                   memory \in AscendingOrders(TypedRows("memory", cutoff_time)),
                   disk \in AscendingOrders(TypedRows("disk", cutoff_time)) :
                    ret' = Respond(op, [args EXCEPT !.cutoff_time = cutoff_time], 200,
                                   [system_metrics |-> [cpu |-> SystemDicts(cpu),
                                                        memory |-> SystemDicts(memory),
                                                        disk |-> SystemDicts(disk)],
                                    period_hours |-> hours])

\* a row of another metric_type, written to the table by another program
InsertSystemMetric(metric_type, value) ==
    /\ pc = "idle"
    /\ system_metrics' = Flush(system_metrics, Stamp(<<NewSystemMetric(metric_type, value)>>, now))
    /\ UNCHANGED <<executions, quality_metrics, session, pc, metrics, now, ret, prev, workers, reader, handles>>

----------------------------------------------------------------------------
(* POST /api/pipelines.  The JSON body is a record of its six fields; a     *)
(* field the body does not have is Absent, and the body {} has none.  A     *)
(* timestamp text is a numeral, its count of seconds, followed or not by    *)
(* the UTC designator "Z".                                                  *)

Absent == [t |-> "absent", v |-> 0, s |-> <<>>]

\* data.get(field, default)
Get(field, default) == IF field = Absent THEN default ELSE field

EmptyBody == [pipeline_name |-> Absent, status |-> Absent, start_time |-> Absent,
              end_time |-> Absent, records_processed |-> Absent, error_message |-> Absent]

\* validate_request_data: the required fields that are missing or null
MissingFields(data, required_fields) ==
    {f \in required_fields : data[f] = Absent \/ data[f] = PyNone}

\* str.replace('Z', '+00:00')
RECURSIVE ReplaceZ(_)
ReplaceZ(cs) ==
    IF cs = <<>> THEN <<>>
    ELSE <<IF Head(cs) = "Z" THEN "+00:00" ELSE Head(cs)>> \o ReplaceZ(Tail(cs))

\* datetime.fromisoformat: an aware datetime when the text ends in an offset,
\* a naive one when it does not, ValueError when it is no timestamp
FromIsoFormat(cs) ==
    IF IsNumeral(cs)
    THEN PyDateTime(Numeral(cs))
    ELSE IF cs # <<>> /\ cs[Len(cs)] = "+00:00" /\ IsNumeral(SubSeq(cs, 1, Len(cs) - 1))
    THEN PyDateTimeTz(Numeral(SubSeq(cs, 1, Len(cs) - 1)))
    ELSE Raises

\* x.replace('Z', '+00:00') then fromisoformat: AttributeError when x is no
\* str, ValueError when the text does not parse; both are caught together
ParseTime(x) == IF x.t # "str" THEN Raises ELSE FromIsoFormat(ReplaceZ(x.s))

\* the type of the error the route ends with, "" when it reaches the collector
RouteError(is_json, data) ==
    LET start_time == ParseTime(data.start_time)
        end_text == Get(data.end_time, PyNone)
        end_time == ParseTime(end_text)
        records_processed == Get(data.records_processed, PyInt(0))
    IN  IF ~is_json
        THEN "ValidationError"
        ELSE IF data = EmptyBody
        THEN "ValidationError"
        ELSE IF MissingFields(data, {"pipeline_name", "status", "start_time"}) # {}
        THEN "ValidationError"
        ELSE IF data.pipeline_name.t # "str"
        THEN "AttributeError"
        ELSE IF Strip(data.pipeline_name.s) = <<>>
        THEN "ValidationError"
        ELSE IF data.status.t # "str" \/ data.status.s \notin {<<w>> : w \in ValidStatuses}
        THEN "ValidationError"
        ELSE IF start_time = Raises
        THEN "ValidationError"
        ELSE IF Truthy(end_text) /\ end_time = Raises
        THEN "ValidationError"
        ELSE IF Truthy(end_text) /\ ~Comparable(end_time, start_time)
        THEN "TypeError"
        ELSE IF Truthy(end_text) /\ Instant(end_time) < Instant(start_time)
        THEN "ValidationError"
        ELSE IF ~IsInstanceInt(records_processed) \/ records_processed.v < 0
        THEN "ValidationError"
        ELSE ""

\* the route record_pipeline_execution: a collector of its own, with a session
\* of its own, records the run and is closed.  The session is made with
\* sessionmaker's default expire_on_commit: the commit expires the attributes
\* of the returned object and close() detaches it, so reading execution.id for
\* the response raises DetachedInstanceError, which except Exception answers.
ApiRecordPipelineExecution(is_json, data, commit_ok) ==
    LET op == "POST /api/pipelines"
        args == [is_json |-> is_json, data |-> data, commit_ok |-> commit_ok]
        error == RouteError(is_json, data)
        end_text == Get(data.end_time, PyNone)
        call == RecordExecutionCall(EmptySession,
                                    PyStr(Strip(data.pipeline_name.s)),
                                    data.status.s[1],
                                    ParseTime(data.start_time),
                                    IF Truthy(end_text) THEN ParseTime(end_text) ELSE PyNone,
                                    Get(data.records_processed, PyInt(0)),
                                    Get(data.error_message, PyNone),
                                    commit_ok)
    IN  /\ pc = "idle"
        /\ prev' = PyNone
        /\ UNCHANGED <<session, pc, metrics, now, workers, reader, handles>>
        /\ IF error = "ValidationError"
           THEN /\ ret' = HandleError(op, args, error, 400)
                /\ UNCHANGED <<executions, quality_metrics, system_metrics>>
           ELSE IF error # ""
           THEN /\ ret' = HandleError(op, args, error, 500)
                /\ UNCHANGED <<executions, quality_metrics, system_metrics>>
           ELSE /\ executions' = call.tables.executions
                /\ quality_metrics' = call.tables.quality_metrics
                /\ system_metrics' = call.tables.system_metrics
                /\ ret' = IF call.ret.exc = "DatabaseError"
                          THEN HandleError(op, args, "DatabaseError", 503)
                          ELSE IF call.ret.exc # ""
                          THEN HandleError(op, args, call.ret.exc, 500)
                          ELSE HandleError(op, args, "DetachedInstanceError", 500)

----------------------------------------------------------------------------
(* Workers that record at the same time.  Each has a MetricsCollector, and  *)
(* so a session, of its own (a request of POST /api/pipelines makes one).   *)
(* A call of record_pipeline_execution is two steps: up to session.add,     *)
(* which touches the worker's session only, and session.commit, whose       *)
(* INSERT and COMMIT the store runs as one transaction.                     *)

Workers == {1, 2}

IdleWorker == [pc |-> "idle", session |-> EmptySession, ret |-> Return("idle", PyNone, PyNone)]

\* MetricsCollector() of the route, then lines 63-100 of the recorder:
\* validation, the new object, session.add; seen is the number of rows stored
\* when the call began
WorkerAdd(w, pipeline_name, status, start_time, end_time, records_processed, error_message) ==
    LET args == [pipeline_name |-> pipeline_name, status |-> status,
                 start_time |-> start_time, end_time |-> end_time,
                 records_processed |-> records_processed,
                 error_message |-> error_message, seen |-> Len(executions)]
        op == "record_pipeline_execution"
        msg == ValidateExecution(pipeline_name, status, start_time, end_time,
                                 records_processed)
        execution == NewExecution(pipeline_name, status, start_time, end_time,
                                  records_processed, error_message)
    IN  /\ workers[w].pc = "idle"
        /\ workers' = [workers EXCEPT ![w] =
              IF msg # ""
              THEN [@ EXCEPT !.pc = "done", !.ret = Raise(op, args, RaisedBy(msg), msg)]
              ELSE IF Truthy(error_message) /\ error_message.t # "str"
              THEN [@ EXCEPT !.pc = "done",
                             !.ret = Raise(op, args, "DatabaseError",
                                           "Failed to record pipeline execution")]
              ELSE [pc |-> "added",
                    session |-> SessionAdd(@.session, "executions", execution),
                    ret |-> Return(op, args, PyNone)]]
        /\ handles' = [handles EXCEPT !.workers[w] = "open"]
        /\ UNCHANGED <<executions, quality_metrics, system_metrics, session, pc, metrics, now,
                       ret, prev, reader>>

\* a commit that writes the table as the worker saw it when its call began,
\* with its own row behind
WorkerCommit_LastWriterWins(w, commit_ok) ==
    LET call == workers[w].ret
        table == Flush(SubSeq(executions, 1, call.args.seen), workers[w].session.executions)
    IN  /\ workers[w].pc = "added"
        /\ executions' = table
        /\ workers' = [workers EXCEPT ![w] =
              [pc |-> "done", session |-> EmptySession,
               ret |-> Return(call.op, call.args, table[Len(table)])]]
        /\ UNCHANGED <<quality_metrics, system_metrics, session, pc, metrics, now, ret, prev,
                       reader, handles>>

\* lines 101-111: session.commit and the return, or the rollback and DatabaseError
WorkerCommit(w, commit_ok) ==
    LET call == workers[w].ret
        table == Flush(executions, workers[w].session.executions)
    IN  /\ workers[w].pc = "added"
        /\ IF commit_ok
           THEN /\ executions' = table
                /\ workers' = [workers EXCEPT ![w] =
                      [pc |-> "done", session |-> EmptySession,
                       ret |-> Return(call.op, call.args, table[Len(table)])]]
           ELSE /\ executions' = executions
                /\ workers' = [workers EXCEPT ![w] =
                      [pc |-> "done", session |-> SessionRollback(@.session),
                       ret |-> Raise(call.op, call.args, "DatabaseError",
                                     "Failed to record pipeline execution")]]
        /\ UNCHANGED <<quality_metrics, system_metrics, session, pc, metrics, now, ret, prev,
                       reader, handles>>

\* collector.close(); the worker's next call is made with a new collector
WorkerClose(w) ==
    /\ workers[w].pc = "done"
    /\ workers' = [workers EXCEPT ![w] = IdleWorker]
    /\ handles' = [handles EXCEPT !.workers[w] = "closed"]
    /\ UNCHANGED <<executions, quality_metrics, system_metrics, session, pc, metrics, now,
                   ret, prev, reader>>

----------------------------------------------------------------------------
(* The caller and the clock *)

\* no call has returned, or the caller has taken what the last one returned
Idle == Return("idle", PyNone, PyNone)

\* the caller takes the result and issues its next call after that; it keeps
\* the last listing it got for as long as no recorder call or other query follows
TakeResult ==
    /\ ret # Idle
    /\ ret' = Idle
    /\ prev' = IF ret.op = "get_pipeline_executions" /\ ret.exc = "" THEN ret ELSE prev
    /\ UNCHANGED <<executions, quality_metrics, system_metrics, session, pc, metrics, now, workers, reader, handles>>

MaxTicks == 2

\* time passes between two calls
Tick ==
    /\ now < MaxTicks * Day
    /\ now' = now + Day
    /\ UNCHANGED <<executions, quality_metrics, system_metrics, session, pc, metrics, ret, prev, workers, reader, handles>>

Init ==
    /\ executions = <<>>
    /\ quality_metrics = <<>>
    /\ system_metrics = <<>>
    /\ session = EmptySession
    /\ pc = "idle"
    /\ metrics = PyNone
    /\ now = 0
    /\ ret = Idle
    /\ prev = PyNone
    /\ workers = [w \in Workers |-> IdleWorker]
    /\ reader = PyNone
    /\ handles = [collector |-> "open", workers |-> [w \in Workers |-> "closed"],
                  reader |-> "closed"]

----------------------------------------------------------------------------
(* The collector called with arbitrary arguments *)

MaxRows == 2

NameInputs == {PyStr(<<"p">>), PyStr(<<" ", "p", " ">>), PyStr(<<" ">>), PyStr(<<>>), PyNone}
StatusInputs == {"success", "failed", "running", "done"}
StartInputs == {PyDateTime(0), PyDateTime(100), PyText(19)}
EndInputs == {PyNone, PyDateTime(0), PyDateTime(100), PyText(19)}
CountInputs == {PyInt(5), PyInt(-1), PyFloat(5)}
MessageInputs == {PyNone, PyText(1001), PyInt(7)}
MetricNameInputs == {PyStr(<<"c">>), PyStr(<<" ">>)}
ValueInputs == {PyFloat(-1), PyFloat(90), PyFloat(95), PyFloat(101), PyInt(1), PyText(4)}
ThresholdInputs == {PyFloat(-1), PyFloat(95), PyFloat(101), PyInt(0), PyText(4)}

Rows == Len(executions) + Len(quality_metrics)

\* the caller may issue a call: no result is waiting and the tables have room
Ready == ret = Idle /\ Rows < MaxRows

Next ==
    \/ /\ Ready
       /\ \E pipeline_name \in NameInputs, status \in StatusInputs,
             start_time \in StartInputs, end_time \in EndInputs,
             records_processed \in CountInputs, error_message \in MessageInputs,
             commit_ok \in BOOLEAN :
               RecordPipelineExecution(pipeline_name, status, start_time, end_time,
                                       records_processed, error_message, commit_ok)
    \/ /\ Ready
       /\ \E pipeline_name \in NameInputs, metric_name \in MetricNameInputs,
             metric_value \in ValueInputs, threshold \in ThresholdInputs,
             commit_ok \in BOOLEAN :
               RecordDataQualityMetric(pipeline_name, metric_name, metric_value,
                                       threshold, commit_ok)
    \/ TakeResult

Spec == Init /\ [][Next]_vars

----------------------------------------------------------------------------
(* Properties of the recorder *)

Accepted(op) == ret.op = op /\ ret.exc = ""

\* C1: every accepted record_pipeline_execution call returns the row it has
\* stored; when end_time was given, the row's duration is end - start in
\* seconds and is not negative; when it was not given, the duration is absent.
C1_DurationDerived ==
    Accepted("record_pipeline_execution") =>
        /\ executions # <<>>
        /\ ret.val = executions[Len(executions)]
        /\ IF ret.args.end_time # PyNone
           THEN /\ ret.val.duration_seconds.t = "float"
                /\ ret.val.duration_seconds.v = ret.args.end_time.v - ret.args.start_time.v
                /\ ret.val.duration_seconds.v >= 0
           ELSE ret.val.duration_seconds = PyNone

\* a run of 100 seconds has been recorded
C1_Witness ==
    /\ Accepted("record_pipeline_execution")
    /\ ret.args.start_time = PyDateTime(0)
    /\ ret.args.end_time = PyDateTime(100)
    /\ executions[Len(executions)].duration_seconds = PyFloat(100)

\* C2: every accepted record_data_quality_metric call returns the row it has
\* stored, and the row's passed is TRUE exactly when the value is at least the
\* threshold; a value equal to the threshold passes.
C2_PassedDerived ==
    Accepted("record_data_quality_metric") =>
        /\ quality_metrics # <<>>
        /\ ret.val = quality_metrics[Len(quality_metrics)]
        /\ ret.val.passed = (Hundredths(ret.args.metric_value) >= Hundredths(ret.args.threshold))
        /\ (Hundredths(ret.args.metric_value) = Hundredths(ret.args.threshold)
              => ret.val.passed = TRUE)

\* 0.95 against a threshold of 0.95 has been recorded as passed
C2_Witness ==
    /\ Accepted("record_data_quality_metric")
    /\ ret.args.metric_value = PyFloat(95)
    /\ ret.args.threshold = PyFloat(95)
    /\ quality_metrics[Len(quality_metrics)].passed = TRUE

\* the validation rules as the specification states them
Blank(x) == x.t # "str" \/ \A i \in 1..Len(x.s) : IsWhitespace(x.s[i])
EndBeforeStart(a) ==
    a.start_time.t = "datetime" /\ a.end_time.t = "datetime" /\ a.end_time.v < a.start_time.v
NegativeCount(a) == a.records_processed.t # "int" \/ a.records_processed.v < 0
OutOfRange(x) == x.t \notin {"int", "float"} \/ Hundredths(x) < 0 \/ Hundredths(x) > 100

ViolatesRule(r) ==
    CASE r.op = "record_pipeline_execution" ->
            \/ Blank(r.args.pipeline_name)
            \/ r.args.status \notin {"running", "success", "failed"}
            \/ EndBeforeStart(r.args)
            \/ NegativeCount(r.args)
      [] r.op = "record_data_quality_metric" ->
            \/ Blank(r.args.pipeline_name)
            \/ OutOfRange(r.args.metric_value)
            \/ OutOfRange(r.args.threshold)
      [] OTHER -> FALSE

OnlyEndBeforeStart(r) ==
    /\ r.op = "record_pipeline_execution"
    /\ EndBeforeStart(r.args)
    /\ ~Blank(r.args.pipeline_name)
    /\ r.args.status \in {"running", "success", "failed"}

C15_IdentityAssigned ==
    /\ \A i \in 1..Len(executions) : executions[i].id \in Nat \ {0}
    /\ \A i, j \in 1..Len(executions) : i < j => executions[i].id < executions[j].id
    /\ (Accepted("record_pipeline_execution") =>
          /\ Len(executions) > 0
          /\ ret.val = executions[Len(executions)]
          /\ ret.val.id \in Nat \ {0}
          /\ ret.val.pipeline_name = Strip(ret.args.pipeline_name.s)
          /\ ret.val.status = ret.args.status
          /\ ret.val.records_processed = ret.args.records_processed.v)

\* a second execution is stored, its name given with blanks around it
C15_Witness ==
    /\ Accepted("record_pipeline_execution")
    /\ Len(executions) = 2
    /\ ret.args.pipeline_name = PyStr(<<" ", "p", " ">>)
    /\ ret.val.pipeline_name = <<"p">>
    /\ ret.val.id > executions[1].id

----------------------------------------------------------------------------
(* The sampler: collect_system_metrics under every outcome of the three     *)
(* reads and of the commit                                                  *)

MaxBatches == 2

GaugeReads == {Raises, PyFloat(-1), PyFloat(100), PyFloat(101)}

NextSystem ==
    \/ /\ ret = Idle /\ Len(system_metrics) < 3 * MaxBatches
       /\ \E cpu \in GaugeReads, memory \in GaugeReads, disk \in GaugeReads :
             CollectRead(cpu, memory, disk)
    \/ CollectAdd
    \/ \E commit_ok \in BOOLEAN : CollectCommit(commit_ok)
    \/ TakeResult
    \/ Tick

SpecSystem == Init /\ [][NextSystem]_vars

Gauges == {"cpu", "memory", "disk"}

Batched(table) ==
    /\ Len(table) % 3 = 0
    /\ \A i \in 1..Len(table) :
          table[i].metric_type = <<"cpu", "memory", "disk">>[((i - 1) % 3) + 1]

\* C7: the table system_metrics holds whole batches in every state; a step
\* that changes it adds exactly three rows and is the successful return of a
\* collect_system_metrics call; a call whose commit fails raises DatabaseError,
\* leaves the table as it was before the call and keeps nothing pending.
C7_BatchAllOrNothing ==
    [][/\ Batched(system_metrics')
       /\ (system_metrics' # system_metrics
             => /\ Len(system_metrics') = Len(system_metrics) + 3
                /\ SubSeq(system_metrics', 1, Len(system_metrics)) = system_metrics
                /\ ret'.op = "collect_system_metrics" /\ ret'.exc = "")
       /\ (ret' # ret /\ ret'.op = "collect_system_metrics" /\ ret'.exc # ""
             => /\ ret'.exc = "DatabaseError"
                /\ system_metrics' = system_metrics
                /\ session' = EmptySession)]_vars

\* a batch is stored, and a later collection whose commit failed left it alone
C7_Witness ==
    /\ ret.op = "collect_system_metrics"
    /\ ret.exc = "DatabaseError"
    /\ Len(system_metrics) = 3

----------------------------------------------------------------------------
(* GET /api/pipelines over stores built by recorded runs *)

PipelineInputs == {PyStr(<<"e">>), PyStr(<<"p">>)}
RunStatuses == {"success", "failed", "running"}
RunStarts == {0, Day}
RunDurations == {0, 100}
DaysInputs == {PyNone, PyStr(<<"1">>), PyStr(<<"2">>), PyStr(<<"0">>), PyStr(<<"x">>)}

\* the collector records a run: one that is still going, or one that has ended
RecordRun ==
    /\ ret = Idle /\ Len(executions) < MaxRows
    /\ \E pipeline_name \in PipelineInputs, status \in RunStatuses, start \in RunStarts,
          commit_ok \in BOOLEAN :
         \E end_time \in {PyNone} \cup {PyDateTime(start + d) : d \in RunDurations} :
            RecordPipelineExecution(pipeline_name, status, PyDateTime(start), end_time,
                                    PyInt(0), PyNone, commit_ok)

NextPipelines ==
    \/ RecordRun
    \/ /\ ret = Idle
       /\ \E days_param \in DaysInputs, db_ok \in BOOLEAN : GetPipelines(days_param, db_ok)
    \/ TakeResult
    \/ Tick

SpecPipelines == Init /\ [][NextPipelines]_vars

\* the rows of a pipeline that start at cutoff or later
WindowRows(name, cutoff) ==
    SelectSeq(executions, LAMBDA e : e.pipeline_name = name /\ e.start_time >= cutoff)

Answered(op) == ret.op = op /\ ret.exc = "" /\ ret.val.status_code = 200

EntriesOf(r) == {r.val.body.pipelines[i] : i \in 1..Len(r.val.body.pipelines)}

\* C4: each entry of GET /api/pipelines counts total_runs and success_count
\* over all the pipeline's runs in the window, and its average duration is the
\* mean over the successful runs of the window that have a duration, absent
\* when there is none (a mean of exactly 0 is left to C23).
C4_AvgOverSuccessfulRuns ==
    Answered("get_pipelines") =>
        \A entry \in EntriesOf(ret) :
            LET rows == WindowRows(entry.name, ret.args.cutoff_date)
                timed == SelectSeq(rows, LAMBDA e : e.status = "success"
                                                    /\ e.duration_seconds # PyNone)
            IN  /\ entry.total_runs = Len(rows)
                /\ entry.success_count = Len(SelectSeq(rows, LAMBDA e : e.status = "success"))
                /\ (timed = <<>> => entry.avg_duration_seconds = PyNone)
                /\ (timed # <<>> /\ SumDurations(timed) # 0
                      => entry.avg_duration_seconds = Fraction(SumDurations(timed), Len(timed)))

\* C5: an entry of GET /api/pipelines whose pipeline has no run in the window
\* has total_runs 0, success_count 0, success_rate 0 and no average duration;
\* an entry with runs has success_rate = success_count / total_runs * 100; a
\* request with a valid days parameter, the store answering, gets a 200.
C5_ZeroRunsSafe ==
    /\ (ret.op = "get_pipelines" /\ ret.args.db_ok
          /\ ret.args.days \in {PyNone, PyStr(<<"1">>), PyStr(<<"2">>)}
          => ret.exc = "" /\ ret.val.status_code = 200)
    /\ (Answered("get_pipelines") =>
          \A entry \in EntriesOf(ret) :
             /\ (WindowRows(entry.name, ret.args.cutoff_date) = <<>>
                   => /\ entry.total_runs = 0
                      /\ entry.success_count = 0
                      /\ entry.success_rate = Fraction(0, 1)
                      /\ entry.avg_duration_seconds = PyNone)
             /\ (entry.total_runs > 0
                   => entry.success_rate.n * entry.total_runs
                        = entry.success_count * 100 * entry.success_rate.d))

\* a pipeline with no run in the window is listed beside one that has a
\* successful run in it
C5_Witness ==
    /\ Answered("get_pipelines")
    /\ \E entry \in EntriesOf(ret) :
          /\ entry.total_runs = 0
          /\ entry.success_rate = Fraction(0, 1)
          /\ entry.avg_duration_seconds = PyNone
    /\ \E entry \in EntriesOf(ret) : entry.total_runs = 1 /\ entry.success_count = 1

\* the stored runs of a pipeline
RunsOf(name) == {e \in {executions[i] : i \in 1..Len(executions)} : e.pipeline_name = name}

\* C12: an answered GET /api/pipelines has one entry for each pipeline name
\* that any stored run has, in the window or not, and no other entry; the
\* entry's latest_execution_time is the greatest start_time of the pipeline's
\* stored runs and its latest_status the status of a run that starts then.
C12_OneEntryPerPipeline ==
    Answered("get_pipelines") =>
        LET listed == ret.val.body.pipelines
        IN  /\ {listed[i].name : i \in 1..Len(listed)}
                  = {executions[i].pipeline_name : i \in 1..Len(executions)}
            /\ \A i, j \in 1..Len(listed) : listed[i].name = listed[j].name => i = j
            /\ ret.val.body.count = Len(listed)
            /\ \A entry \in EntriesOf(ret) :
                  /\ \A e \in RunsOf(entry.name) : e.start_time <= entry.latest_execution_time
                  /\ \E e \in RunsOf(entry.name) :
                        /\ e.start_time = entry.latest_execution_time
                        /\ e.status = entry.latest_status

\* a listed pipeline has two runs of different start_time and status, one of
\* them out of the window, and its entry shows the later one
C12_Witness ==
    /\ Answered("get_pipelines")
    /\ \E entry \in EntriesOf(ret) :
          /\ entry.total_runs = 1
          /\ \E e \in RunsOf(entry.name) :
                /\ e.start_time < entry.latest_execution_time
                /\ e.status # entry.latest_status

----------------------------------------------------------------------------
(* GET /api/metrics/summary over the same stores *)

NextSummary ==
    \/ RecordRun
    \/ /\ ret = Idle
       /\ \E days_param \in DaysInputs, db_ok \in BOOLEAN : GetMetricsSummary(days_param, db_ok)
    \/ TakeResult
    \/ Tick

SpecSummary == Init /\ [][NextSummary]_vars

AllRows == {executions[i] : i \in 1..Len(executions)}

\* C9: the summary counts total_executions and success_count over the runs
\* that start at the cutoff or later, reports success_rate as success_count /
\* total_executions * 100 rounded to two decimals and 0 when there is no run in
\* the window, and reports pipeline_count as the number of distinct pipeline
\* names of all stored runs, in the window or not.
C9_SummaryCounts ==
    Answered("get_metrics_summary") =>
        LET body == ret.val.body
            window == {e \in AllRows : e.start_time >= ret.args.cutoff_date}
            wins == {e \in window : e.status = "success"}
        IN  /\ body.total_executions = Cardinality(window)
            /\ body.success_count = Cardinality(wins)
            /\ (body.total_executions = 0 => body.success_rate = Fraction(0, 1))
            /\ (body.total_executions > 0 =>
                  \* within half a hundredth of the exact rate
                  LET shown == (body.success_rate.n * 100) \div body.success_rate.d
                      exact2 == 2 * 10000 * body.success_count
                  IN  /\ body.success_rate.n * 100 = shown * body.success_rate.d
                      /\ (2 * shown - 1) * body.total_executions <= exact2
                      /\ exact2 <= (2 * shown + 1) * body.total_executions)
            /\ body.pipeline_count = Cardinality({e.pipeline_name : e \in AllRows})
            /\ (AllRows = {} => body.total_executions = 0 /\ body.pipeline_count = 0)
            /\ (AllRows # {} /\ window = {} => body.total_executions = 0 /\ body.pipeline_count > 0)

\* runs are stored, all of them before the cutoff: no execution, some pipeline
C9_Witness ==
    /\ Answered("get_metrics_summary")
    /\ ret.val.body.total_executions = 0
    /\ ret.val.body.success_rate = Fraction(0, 1)
    /\ ret.val.body.pipeline_count = 2

----------------------------------------------------------------------------
(* GET /api/pipelines/<pipeline_name>/executions, asked again *)

ListedStatuses == {"success", "running"}
ListedNames == {PyStr(<<"e">>), PyStr(<<" ">>)}
LimitInputs == {PyNone, PyStr(<<"1">>), PyStr(<<"0">>)}
ListDaysInputs == {PyStr(<<"1">>), PyStr(<<"2">>), PyStr(<<"x">>)}

\* the collector records a run that has not ended
RecordStart ==
    /\ ret = Idle /\ Len(executions) < MaxRows
    /\ \E pipeline_name \in PipelineInputs, status \in ListedStatuses, start \in RunStarts,
          commit_ok \in BOOLEAN :
            RecordPipelineExecution(pipeline_name, status, PyDateTime(start), PyNone,
                                    PyInt(0), PyNone, commit_ok)

NextList ==
    \/ RecordStart
    \/ /\ ret = Idle
       /\ \E pipeline_name \in ListedNames, limit_param \in LimitInputs,
             days_param \in ListDaysInputs, db_ok \in BOOLEAN :
               GetPipelineExecutions(pipeline_name, limit_param, days_param, db_ok)
    \/ TakeResult
    \/ Tick

SpecList == Init /\ [][NextList]_vars

\* the same request asked twice, no recorder call in between
AskedAgain ==
    /\ Answered("get_pipeline_executions")
    /\ prev # PyNone
    /\ prev.args.pipeline_name = ret.args.pipeline_name
    /\ prev.args.limit = ret.args.limit
    /\ prev.args.days = ret.args.days

Matching(name, cutoff) ==
    {e \in AllRows : e.pipeline_name = name /\ e.start_time >= cutoff}

\* C8 as stated: the same listing request asked twice, no write in between,
\* gets the same executions in the same order, also when runs share a
\* start_time and when time has passed between the two requests.
C8_SameListingTwice ==
    AskedAgain => ret.val.body = prev.val.body

\* C8 as amended: the same listing request asked twice, no write in between,
\* gets the same executions in the same order when the same runs are in the
\* window at both requests and no two of them share a start_time.
C8_SameListingSameWindow ==
    (/\ AskedAgain
     /\ Matching(ret.args.pipeline_name.s, ret.args.cutoff_date)
          = Matching(ret.args.pipeline_name.s, prev.args.cutoff_date)
     /\ \A e1, e2 \in Matching(ret.args.pipeline_name.s, ret.args.cutoff_date) :
           e1.start_time = e2.start_time => e1 = e2)
    => ret.val.body = prev.val.body

\* two runs of different start_time were listed twice, time passing in between
C8_Witness ==
    /\ AskedAgain
    /\ prev.args.cutoff_date < ret.args.cutoff_date
    /\ Len(ret.val.body.executions) = 2
    /\ ret.val.body.executions[1].start_time > ret.val.body.executions[2].start_time
    /\ ret.val.body = prev.val.body

\* the limit a listing request asks for
AskedLimit(a) == IF a.limit = PyNone THEN DefaultLimit ELSE Numeral(Strip(a.limit.s))

\* C11: an answered listing has min(limit, number of matching runs) rows, each
\* a different run of the pipeline asked for that starts at the cutoff or later,
\* in descending order of start_time, and no matching run left out starts
\* later than a run that was returned; count is the number of rows.
C11_ListingCapped ==
    Answered("get_pipeline_executions") =>
        LET listed == ret.val.body.executions
            matching == Matching(ret.args.pipeline_name.s, ret.args.cutoff_date)
            ids == {listed[i].id : i \in 1..Len(listed)}
            limit == AskedLimit(ret.args)
        IN  /\ Len(listed) = IF limit < Cardinality(matching) THEN limit
                                                                ELSE Cardinality(matching)
            /\ ret.val.body.count = Len(listed)
            /\ Cardinality(ids) = Len(listed)
            /\ \A i \in 1..Len(listed) :
                  \E e \in matching : ExecutionDict(e) = listed[i]
            /\ \A i, j \in 1..Len(listed) :
                  i < j => listed[i].start_time >= listed[j].start_time
            /\ \A e \in matching :
                  e.id \notin ids => \A i \in 1..Len(listed) : listed[i].start_time >= e.start_time

\* limit=1 was asked with two matching runs of different start_time stored,
\* and the later one came back
C11_Witness ==
    /\ Answered("get_pipeline_executions")
    /\ ret.args.limit = PyStr(<<"1">>)
    /\ Len(ret.val.body.executions) = 1
    /\ \E e \in Matching(ret.args.pipeline_name.s, ret.args.cutoff_date) :
          e.start_time < ret.val.body.executions[1].start_time

----------------------------------------------------------------------------
(* GET /api/pipelines/<pipeline_name>/quality over recorded scores *)

ScoredMetrics == {PyStr(<<"c">>), PyStr(<<"a">>)}
Scores == {PyFloat(90), PyFloat(95)}

\* the collector records a score against the threshold 0.95
RecordScore ==
    /\ ret = Idle /\ Len(quality_metrics) < MaxRows
    /\ \E pipeline_name \in PipelineInputs, metric_name \in ScoredMetrics,
          metric_value \in Scores, commit_ok \in BOOLEAN :
            RecordDataQualityMetric(pipeline_name, metric_name, metric_value,
                                    PyFloat(95), commit_ok)

NextQuality ==
    \/ RecordScore
    \/ /\ ret = Idle
       /\ \E pipeline_name \in ListedNames, days_param \in DaysInputs, db_ok \in BOOLEAN :
            GetPipelineQuality(pipeline_name, days_param, db_ok)
    \/ TakeResult
    \/ Tick

SpecQuality == Init /\ [][NextQuality]_vars

\* the stored scores of a pipeline stamped at cutoff or later
MatchingScores(name, cutoff) ==
    {m \in {quality_metrics[i] : i \in 1..Len(quality_metrics)} :
        m.pipeline_name = name /\ m.timestamp.v >= cutoff}

\* C13: an answered quality listing has a group for each metric name of a
\* matching score and no other group, so no group is empty and no matching
\* score gives an empty mapping; the group of a name holds the matching scores
\* of that name, each as often as it is stored, by timestamp descending; a
\* request with a valid name and days, the store answering, gets a 200.
C13_GroupedByMetricName ==
    /\ (ret.op = "get_pipeline_quality" /\ ret.args.db_ok
          /\ ret.args.pipeline_name = PyStr(<<"e">>)
          /\ ret.args.days \in {PyNone, PyStr(<<"1">>), PyStr(<<"2">>)}
          => ret.exc = "" /\ ret.val.status_code = 200)
    /\ (Answered("get_pipeline_quality") =>
          LET groups == ret.val.body.quality_metrics
              matching == MatchingScores(ret.args.pipeline_name.s, ret.args.cutoff_date)
          IN  /\ DOMAIN groups = {m.metric_name : m \in matching}
              /\ \A name \in DOMAIN groups :
                    LET group == groups[name]
                        named == {m \in matching : m.metric_name = name}
                    IN  /\ Len(group) = Cardinality(named)
                        /\ Len(group) > 0
                        /\ \A m \in named :
                              Cardinality({i \in 1..Len(group) : group[i] = QualityDict(m)})
                                = Cardinality({o \in named : QualityDict(o) = QualityDict(m)})
                        /\ \A i, j \in 1..Len(group) :
                              i < j => group[i].timestamp >= group[j].timestamp)

\* a group holds two scores of different timestamps
C13_Witness ==
    /\ Answered("get_pipeline_quality")
    /\ \E name \in DOMAIN ret.val.body.quality_metrics :
          LET group == ret.val.body.quality_metrics[name]
          IN  Len(group) = 2 /\ group[1].timestamp > group[2].timestamp

\* a pipeline without a matching score gets the empty mapping
C13_WitnessEmpty ==
    /\ Answered("get_pipeline_quality")
    /\ Len(quality_metrics) > 0
    /\ DOMAIN ret.val.body.quality_metrics = {}

----------------------------------------------------------------------------
(* GET /api/system/metrics over collected batches and rows of other types *)

HoursInputs == {PyNone, PyStr(<<"1">>), PyStr(<<"4", "8">>), PyStr(<<"0">>)}
CpuReads == {Raises, PyFloat(100)}

\* the rows of the table that are, or are not, of one of the three types
Sampled(known) ==
    SelectSeq(system_metrics, LAMBDA m : (m.metric_type \in SystemTypes) = known)

NextMetrics ==
    \/ /\ ret = Idle /\ Len(Sampled(TRUE)) < 3 * MaxBatches
       /\ \E cpu \in CpuReads : CollectRead(cpu, PyFloat(50), PyFloat(60))
    \/ CollectAdd
    \/ \E commit_ok \in BOOLEAN : CollectCommit(commit_ok)
    \/ /\ ret = Idle /\ Len(Sampled(FALSE)) < MaxRows - 1
       /\ InsertSystemMetric("network", 7)
    \/ /\ ret = Idle /\ pc = "idle"
       /\ \E hours_param \in HoursInputs, db_ok \in BOOLEAN : GetSystemMetrics(hours_param, db_ok)
    \/ TakeResult
    \/ Tick

SpecMetrics == Init /\ [][NextMetrics]_vars

\* the stored system rows stamped at cutoff or later
RecentSamples(cutoff) ==
    {m \in {system_metrics[i] : i \in 1..Len(system_metrics)} : m.timestamp.v >= cutoff}

\* C14: an answered GET /api/system/metrics has the three keys cpu, memory and
\* disk and no other; the list of a key holds the stored rows of that type
\* stamped at the cutoff or later, each as often as it is stored, by timestamp
\* ascending; a stored row of another type appears in no list, and a request
\* with valid hours, the store answering, gets a 200 whatever is stored.
C14_ThreeTypedSequences ==
    /\ (ret.op = "get_system_metrics" /\ ret.args.db_ok
          /\ ret.args.hours \in {PyNone, PyStr(<<"1">>), PyStr(<<"4", "8">>)}
          => ret.exc = "" /\ ret.val.status_code = 200)
    /\ (Answered("get_system_metrics") =>
          LET lists == ret.val.body.system_metrics
              recent == RecentSamples(ret.args.cutoff_time)
          IN  /\ DOMAIN lists = {"cpu", "memory", "disk"}
              /\ \A type \in DOMAIN lists :
                    LET list == lists[type]
                        typed == {m \in recent : m.metric_type = type}
                    IN  /\ Len(list) = Cardinality(typed)
                        /\ \A m \in typed :
                              Cardinality({i \in 1..Len(list) : list[i] = SystemDict(m)})
                                = Cardinality({o \in typed : SystemDict(o) = SystemDict(m)})
                        /\ \A i, j \in 1..Len(list) :
                              i < j => list[i].timestamp <= list[j].timestamp)

\* two batches of different timestamps are listed, a row of another type is
\* stored in the window and is in no list
C14_Witness ==
    /\ Answered("get_system_metrics")
    /\ Len(ret.val.body.system_metrics.cpu) = 2
    /\ ret.val.body.system_metrics.cpu[1].timestamp < ret.val.body.system_metrics.cpu[2].timestamp
    /\ \E m \in RecentSamples(ret.args.cutoff_time) : m.metric_type = "network"

----------------------------------------------------------------------------
(* The three tables under every operation: the collector's three record     *)
(* operations and the five queries                                          *)

StoredStatuses == {"running", "success"}

NextStore ==
    \/ /\ ret = Idle /\ Len(executions) < MaxRows
       /\ \E status \in StoredStatuses, commit_ok \in BOOLEAN :
            RecordPipelineExecution(PyStr(<<"e">>), status, PyDateTime(0), PyNone,
                                    PyInt(0), PyNone, commit_ok)
    \/ /\ ret = Idle /\ Len(quality_metrics) < MaxRows
       /\ \E metric_value \in Scores, commit_ok \in BOOLEAN :
            RecordDataQualityMetric(PyStr(<<"e">>), PyStr(<<"c">>), metric_value,
                                    PyFloat(95), commit_ok)
    \/ /\ ret = Idle /\ Len(system_metrics) < 3 * MaxBatches
       /\ \E cpu \in CpuReads : CollectRead(cpu, PyFloat(50), PyFloat(60))
    \/ CollectAdd
    \/ \E commit_ok \in BOOLEAN : CollectCommit(commit_ok)
    \/ /\ ret = Idle
       /\ \E db_ok \in BOOLEAN : GetPipelines(PyStr(<<"1">>), db_ok)
    \/ /\ ret = Idle
       /\ \E db_ok \in BOOLEAN : GetPipelineExecutions(PyStr(<<"e">>), PyNone, PyStr(<<"1">>), db_ok)
    \/ /\ ret = Idle
       /\ \E db_ok \in BOOLEAN : GetPipelineQuality(PyStr(<<"e">>), PyStr(<<"1">>), db_ok)
    \/ /\ ret = Idle
       /\ \E db_ok \in BOOLEAN : GetSystemMetrics(PyStr(<<"1">>), db_ok)
    \/ /\ ret = Idle
       /\ \E db_ok \in BOOLEAN : GetMetricsSummary(PyStr(<<"1">>), db_ok)
    \/ TakeResult

SpecStore == Init /\ [][NextStore]_vars

\* table `after` is table `before` with n rows added behind it
Grown(before, after, n) ==
    /\ Len(after) = Len(before) + n
    /\ SubSeq(after, 1, Len(before)) = before

Queries == {"get_pipelines", "get_pipeline_executions", "get_pipeline_quality",
            "get_system_metrics", "get_metrics_summary"}

\* C16: every step leaves each stored row where it is and as it is; a record
\* operation that returns adds one row to its table, three for
\* collect_system_metrics, and nothing to the other tables; a record
\* operation that raises, and a query, add nothing; so a row is never
\* updated, merged or deleted.
C16_AppendOnly ==
    [][/\ \E n \in {0, 1} : Grown(executions, executions', n)
       /\ \E n \in {0, 1} : Grown(quality_metrics, quality_metrics', n)
       /\ \E n \in {0, 3} : Grown(system_metrics, system_metrics', n)
       /\ (ret' # ret /\ ret'.op # "idle" =>
             /\ Len(executions') - Len(executions)
                  = IF ret'.op = "record_pipeline_execution" /\ ret'.exc = "" THEN 1 ELSE 0
             /\ Len(quality_metrics') - Len(quality_metrics)
                  = IF ret'.op = "record_data_quality_metric" /\ ret'.exc = "" THEN 1 ELSE 0
             /\ Len(system_metrics') - Len(system_metrics)
                  = IF ret'.op = "collect_system_metrics" /\ ret'.exc = "" THEN 3 ELSE 0)
       /\ (ret' = ret \/ ret'.op = "idle" \/ ret'.op \in Queries =>
             /\ executions' = executions
             /\ quality_metrics' = quality_metrics
             /\ system_metrics' = system_metrics)]_vars

\* running, then success, were recorded for the same pipeline: two rows
C16_Witness ==
    /\ Accepted("record_pipeline_execution")
    /\ Len(executions) = 2
    /\ executions[1].pipeline_name = executions[2].pipeline_name
    /\ executions[1].status = "running" /\ executions[2].status = "success"
    /\ Len(quality_metrics) > 0 /\ Len(system_metrics) > 0

----------------------------------------------------------------------------
(* Two workers record runs of the same pipeline at the same time *)

\* the calls that have added their row and not yet committed it
Pending == {w \in Workers : workers[w].pc = "added"}

NextWorkers ==
    \/ /\ Len(executions) + Cardinality(Pending) < MaxRows
       /\ \E w \in Workers, status \in StoredStatuses, start \in RunStarts,
             records_processed \in {PyInt(0), PyInt(-1)} :
            WorkerAdd(w, PyStr(<<"e">>), status, PyDateTime(start), PyNone,
                      records_processed, PyNone)
    \/ \E w \in Workers, commit_ok \in BOOLEAN : WorkerCommit(w, commit_ok)
    \/ \E w \in Workers : WorkerClose(w)

SpecWorkers == Init /\ [][NextWorkers]_vars

\* the worker's call has returned the row it stored
Stored(w) ==
    /\ workers[w].pc = "done"
    /\ workers[w].ret.exc = ""

\* C17: whatever the interleaving of the workers' steps, a step in which a
\* call returns adds exactly one row behind the rows stored, the row the call
\* submitted, under an id no stored row has, and leaves the other worker's
\* session and result alone; as long as the worker keeps its result, the row
\* stays in the table as returned; two results held at once have different
\* ids; a call raises only for a bad argument or a commit the store refuses.
C17_ConcurrentRowsIndependent ==
    [][/\ \A w \in Workers :
            (workers[w].pc = "added" /\ workers'[w].pc = "done" /\ workers'[w].ret.exc = "") =>
               LET row == workers'[w].ret.val
                   args == workers'[w].ret.args
               IN  /\ Len(executions') = Len(executions) + 1
                   /\ SubSeq(executions', 1, Len(executions)) = executions
                   /\ executions'[Len(executions')] = row
                   /\ \A i \in 1..Len(executions) : executions[i].id # row.id
                   /\ row.pipeline_name = Strip(args.pipeline_name.s)
                   /\ row.status = args.status
                   /\ row.start_time = args.start_time.v
                   /\ \A o \in Workers \ {w} : workers'[o] = workers[o]
       /\ \A w \in Workers :
            (workers[w].pc = "added" /\ workers'[w].pc = "done" /\ workers'[w].ret.exc # "") =>
               /\ executions' = executions
               /\ workers'[w].ret.exc = "DatabaseError"
       /\ \A w \in Workers :
            Stored(w)' => \E i \in 1..Len(executions') : executions'[i] = workers'[w].ret.val
       /\ \A w, o \in Workers :
            Stored(w)' /\ Stored(o)' /\ w # o => workers'[w].ret.val.id # workers'[o].ret.val.id
       /\ \A i, j \in 1..Len(executions') :
            executions'[i].id = executions'[j].id => i = j]_vars

\* both calls began on the empty table, running and success for the same
\* pipeline, and both have returned: two rows
C17_Witness ==
    /\ Stored(1) /\ Stored(2)
    /\ workers[1].ret.args.seen = 0 /\ workers[2].ret.args.seen = 0
    /\ workers[1].ret.args.status = "running" /\ workers[2].ret.args.status = "success"
    /\ workers[1].ret.val.id = 2 /\ workers[2].ret.val.id = 1
    /\ Len(executions) = 2
    /\ executions[1].pipeline_name = executions[2].pipeline_name

----------------------------------------------------------------------------
(* The rows the recorder leaves in the store, for naive times and for times *)
(* that carry a UTC offset                                                  *)

NextRecorded ==
    \/ /\ ret = Idle /\ Len(executions) < MaxRows
       /\ \E pipeline_name \in {PyStr(<<" ", "p", " ">>), PyStr(<<" ">>), PyNone},
             status \in {"success", "done"},
             start_time \in {PyDateTime(0), PyDateTime(100), PyDateTimeEast(Hour), PyText(19)},
             end_time \in {PyNone, PyDateTime(0), PyDateTime(100), PyDateTimeTz(100)},
             records_processed \in {PyInt(5), PyInt(-1)},
             error_message \in {PyNone, PyText(MaxErrorLen + 1)},
             commit_ok \in BOOLEAN :
               RecordPipelineExecution(pipeline_name, status, start_time, end_time,
                                       records_processed, error_message, commit_ok)
    \/ TakeResult

SpecRecorded == Init /\ [][NextRecorded]_vars

\* C19: every stored run has a non-empty pipeline name without leading or
\* trailing whitespace, a status among running, success and failed, an end time
\* that is absent or not before its start time, a duration that is present
\* exactly when the end time is and then equals end - start and is not
\* negative, a count of records that is not negative, and an error message
\* that is absent or at most 1000 characters long.
C19_StoredRunsWellFormed ==
    \A i \in 1..Len(executions) :
       LET e == executions[i]
       IN  /\ e.pipeline_name # <<>>
           /\ Strip(e.pipeline_name) = e.pipeline_name
           /\ e.status \in {"running", "success", "failed"}
           /\ e.end_time = PyNone \/ e.end_time.v >= e.start_time
           /\ (e.duration_seconds # PyNone) <=> (e.end_time # PyNone)
           /\ e.end_time # PyNone =>
                /\ e.duration_seconds.v = e.end_time.v - e.start_time
                /\ e.duration_seconds.v >= 0
           /\ e.records_processed >= 0
           /\ e.error_message = PyNone \/ e.error_message.v <= 1000

----------------------------------------------------------------------------
(* The windowed queries over runs that start before, at and after the time  *)
(* of the request                                                           *)

\* the collector records a run of pipeline e that took 100 seconds, or has not ended
RecordTimedRun ==
    /\ ret = Idle /\ Len(executions) < MaxRows
    /\ \E status \in {"success", "failed"}, start \in {0, Day, 2 * Day}, ended \in BOOLEAN :
         RecordPipelineExecution(PyStr(<<"e">>), status, PyDateTime(start),
                                 IF ended THEN PyDateTime(start + 100) ELSE PyNone,
                                 PyInt(0), PyNone, TRUE)

NextWindow ==
    \/ RecordTimedRun
    \/ /\ ret = Idle
       /\ \E days_param \in {PyStr(<<"1">>), PyStr(<<"2">>)} : GetPipelines(days_param, TRUE)
    \/ /\ ret = Idle
       /\ \E days_param \in {PyStr(<<"1">>), PyStr(<<"2">>)} : GetMetricsSummary(days_param, TRUE)
    \/ /\ ret = Idle
       /\ \E days_param \in {PyStr(<<"1">>), PyStr(<<"2">>)} :
            GetPipelineExecutions(PyStr(<<"e">>), PyNone, days_param, TRUE)
    \/ TakeResult
    \/ Tick

SpecWindow == Init /\ [][NextWindow]_vars

WindowedQueries == {"get_pipelines", "get_metrics_summary", "get_pipeline_executions"}

\* the rows of a table that start from lo to hi
Between(table, lo, hi) ==
    SelectSeq(table, LAMBDA e : e.start_time >= lo /\ e.start_time <= hi)

\* the response r reports its windowed figures over exactly the rows given:
\* per pipeline the runs and the successful runs; in the summary the runs, the
\* successful runs and the mean duration of the successful runs that have one;
\* in a listing, whose limit is above the number of rows, the runs listed
Covers(r, rows) ==
    CASE r.op = "get_pipelines" ->
           \A entry \in EntriesOf(r) :
              LET mine == SelectSeq(rows, LAMBDA e : e.pipeline_name = entry.name)
              IN  /\ entry.total_runs = Len(mine)
                  /\ entry.success_count = Len(SelectSeq(mine, LAMBDA e : e.status = "success"))
      [] r.op = "get_metrics_summary" ->
           LET timed == SelectSeq(rows, LAMBDA e : e.status = "success"
                                                   /\ e.duration_seconds # PyNone)
           IN  /\ r.val.body.total_executions = Len(rows)
               /\ r.val.body.success_count
                    = Len(SelectSeq(rows, LAMBDA e : e.status = "success"))
               /\ r.val.body.avg_duration_seconds
                    = IF timed = <<>> THEN PyNone
                                      ELSE Fraction(SumDurations(timed), Len(timed))
      [] r.op = "get_pipeline_executions" ->
           {r.val.body.executions[i].id : i \in 1..Len(r.val.body.executions)}
             = {rows[i].id : i \in 1..Len(rows)}
      [] OTHER -> TRUE

\* the number of days a request asks for
AskedDays(a) == Numeral(Strip(a.days.s))

\* C18 as stated: a windowed query answers over exactly the runs that start
\* from now - window to now, now being the time of the request: a run that
\* starts at now - window is counted, one that starts before is not, and one
\* that starts after now is not.
C18_WindowUpToNow ==
    [][(ret' # ret /\ ret'.op \in WindowedQueries /\ ret'.exc = "") =>
          Covers(ret', Between(executions', now' - AskedDays(ret'.args) * Day, now'))]_vars

\* C18 as amended: a windowed query answers over exactly the runs that start
\* at now - window or later, now being the time of the request: a run that
\* starts at now - window is counted, one that starts before is not, and one
\* that starts after now is counted.
C18_WindowFromCutoff ==
    [][(ret' # ret /\ ret'.op \in WindowedQueries /\ ret'.exc = "") =>
          Covers(ret', Between(executions', now' - AskedDays(ret'.args) * Day,
                               2 * Day + 100))]_vars

\* a summary of one day, asked at the end of day one, counts a successful run
\* that starts at the cutoff and one that starts a day after the request
C18_Witness ==
    /\ Answered("get_metrics_summary")
    /\ ret.args.days = PyStr(<<"1">>)
    /\ ret.args.cutoff_date = 0
    /\ Len(executions) = 2
    /\ executions[1].start_time = 0 /\ executions[2].start_time = 2 * Day
    /\ ret.val.body.total_executions = 2
    /\ ret.val.body.success_count = 2

----------------------------------------------------------------------------
(* GET /api/metrics/summary while workers record.  query_summary sends its  *)
(* four queries one after the other on a session of its own; the session   *)
(* asks the store for no snapshot, so each query reads the rows committed   *)
(* when it runs, and a worker's commit may fall between two of them.        *)

\* lines 337-349: the parameter, the cutoff and the session
SummaryBegin(days_param, db_ok) ==
    LET op == "get_metrics_summary"
        args == [days |-> days_param, db_ok |-> db_ok, cutoff_date |-> now]
        days == QueryParam(days_param, DefaultDays, MinDays, MaxDays)
    IN  /\ reader = PyNone
        /\ prev' = PyNone
        /\ UNCHANGED <<executions, quality_metrics, system_metrics, session, pc, metrics, now,
                       workers>>
        /\ IF days = -1
           THEN ret' = HandleError(op, args, "ValidationError", 400)
                /\ UNCHANGED <<reader, handles>>
           ELSE IF ~db_ok
           THEN \* the first query raises: finally closes the session
                ret' = HandleError(op, args, "DatabaseError", 503)
                /\ UNCHANGED <<reader, handles>>
           ELSE /\ handles' = [handles EXCEPT !.reader = "open"]
                /\ reader' = [pc |-> "total", op |-> op,
                              args |-> [args EXCEPT !.cutoff_date = now - days * Day],
                              days |-> days, total_executions |-> 0, success_count |-> 0,
                              avg_duration |-> PyNone]
                /\ UNCHANGED ret

\* the rows a query of the summary in progress reads
ReaderWindow == SelectSeq(executions, LAMBDA e : e.start_time >= reader.args.cutoff_date)

\* lines 350-352: total_executions
SummaryCountTotal ==
    /\ reader # PyNone /\ reader.pc = "total"
    /\ reader' = [reader EXCEPT !.pc = "success", !.total_executions = Len(ReaderWindow)]
    /\ UNCHANGED <<executions, quality_metrics, system_metrics, session, pc, metrics, now,
                   ret, prev, workers, handles>>

\* lines 355-358: success_count
SummaryCountSuccess ==
    /\ reader # PyNone /\ reader.pc = "success"
    /\ reader' = [reader EXCEPT !.pc = "avg",
                                !.success_count = Len(SelectSeq(ReaderWindow, IsSuccess))]
    /\ UNCHANGED <<executions, quality_metrics, system_metrics, session, pc, metrics, now,
                   ret, prev, workers, handles>>

\* lines 363-366: avg_duration
SummaryAverage ==
    /\ reader # PyNone /\ reader.pc = "avg"
    /\ reader' = [reader EXCEPT !.pc = "pipelines",
                                !.avg_duration = SqlAvg(SelectSeq(ReaderWindow, IsSuccess))]
    /\ UNCHANGED <<executions, quality_metrics, system_metrics, session, pc, metrics, now,
                   ret, prev, workers, handles>>

\* lines 369-383: pipeline_count, the dictionary, session.close() and the response
SummaryCountPipelines ==
    /\ reader # PyNone /\ reader.pc = "pipelines"
    /\ ret' = Respond(reader.op, reader.args, 200,
                      [total_executions |-> reader.total_executions,
                       success_count |-> reader.success_count,
                       success_rate |->
                          Fraction(Round2(Rate(reader.success_count, reader.total_executions)),
                                   100),
                       avg_duration_seconds |-> FloatOrNone(reader.avg_duration),
                       pipeline_count |-> Cardinality(PipelineNames),
                       period_days |-> reader.days])
    /\ reader' = PyNone
    /\ handles' = [handles EXCEPT !.reader = "closed"]
    /\ UNCHANGED <<executions, quality_metrics, system_metrics, session, pc, metrics, now,
                   prev, workers>>

NextReader ==
    \/ /\ ret = Idle
       /\ \E days_param \in {PyStr(<<"1">>), PyStr(<<"0">>)}, db_ok \in BOOLEAN :
            SummaryBegin(days_param, db_ok)
    \/ SummaryCountTotal
    \/ SummaryCountSuccess
    \/ SummaryAverage
    \/ SummaryCountPipelines
    \/ TakeResult
    \/ /\ Len(executions) + Cardinality(Pending) < MaxRows
       /\ \E w \in Workers, status \in {"success", "failed"}, ended \in BOOLEAN :
            WorkerAdd(w, PyStr(<<"e">>), status, PyDateTime(0),
                      IF ended THEN PyDateTime(100) ELSE PyNone, PyInt(0), PyNone)
    \/ \E w \in Workers : WorkerCommit(w, TRUE)
    \/ \E w \in Workers : WorkerClose(w)

SpecReader == Init /\ [][NextReader]_vars

\* C20: a summary answered while workers record reports figures of one
\* snapshot of the store: its success_count is at most its total_executions,
\* its success_rate is at most 100, and its pipeline_count is at least 1
\* whenever its total_executions is.
C20_SummaryOneSnapshot ==
    Answered("get_metrics_summary") =>
        LET body == ret.val.body
        IN  /\ body.success_count <= body.total_executions
            /\ body.success_rate.n <= 100 * body.success_rate.d
            /\ body.total_executions >= 1 => body.pipeline_count >= 1

----------------------------------------------------------------------------
(* One collector whose commits may fail: what is left in its session and    *)
(* what reaches the store                                                   *)

RecorderOps == {"record_pipeline_execution", "record_data_quality_metric",
                "collect_system_metrics"}

\* the three rows a batch of collect_system_metrics has added behind `before`
BatchOf(before, after, result) ==
    /\ Grown(before, after, 3)
    /\ after[Len(before) + 1].metric_type = "cpu"
    /\ after[Len(before) + 1].metric_value = result.cpu
    /\ after[Len(before) + 2].metric_type = "memory"
    /\ after[Len(before) + 2].metric_value = result.memory
    /\ after[Len(before) + 3].metric_type = "disk"
    /\ after[Len(before) + 3].metric_value = result.disk

\* C22: on one collector, a record operation that raises leaves the store as
\* it was and its session without a pending row; one that returns adds to the
\* store the row it returns (the three rows of its batch for
\* collect_system_metrics) and nothing else, so no row of an earlier failed
\* operation with it; between two operations the session holds no pending row.
C22_FailedRowsNeverStored ==
    [][/\ (ret' # ret /\ ret'.op \in RecorderOps /\ ret'.exc # "") =>
             /\ executions' = executions
             /\ quality_metrics' = quality_metrics
             /\ system_metrics' = system_metrics
             /\ session' = EmptySession
       /\ (ret' # ret /\ ret'.op \in RecorderOps /\ ret'.exc = "") =>
             /\ session' = EmptySession
             /\ executions' = IF ret'.op = "record_pipeline_execution"
                              THEN Append(executions, ret'.val) ELSE executions
             /\ quality_metrics' = IF ret'.op = "record_data_quality_metric"
                                   THEN Append(quality_metrics, ret'.val)
                                   ELSE quality_metrics
             /\ IF ret'.op = "collect_system_metrics"
                THEN BatchOf(system_metrics, system_metrics', ret'.val)
                ELSE system_metrics' = system_metrics
       /\ (pc' = "idle" => session' = EmptySession)]_vars

\* the commit of a quality metric has failed after a run and a batch were
\* stored: the session is empty and the table of quality metrics has no row
C22_Witness ==
    /\ ret.op = "record_data_quality_metric"
    /\ ret.exc = "DatabaseError"
    /\ session = EmptySession
    /\ quality_metrics = <<>>
    /\ Len(executions) = 1
    /\ Len(system_metrics) = 3

----------------------------------------------------------------------------
(* The sessions of the operations.  A MetricsCollector gets its session in  *)
(* __init__ and gives it up in close(): the owner of a collector calls the  *)
(* recorder any number of times in between.  A route gets a session, or a  *)
(* collector, of its own and closes it in a finally block.                  *)

\* MetricsCollector.close(), called by the collector's owner after its last call
CollectorClose ==
    /\ ret = Idle /\ pc = "idle"
    /\ handles.collector = "open"
    /\ handles' = [handles EXCEPT !.collector = "closed"]
    /\ session' = EmptySession
    /\ UNCHANGED <<executions, quality_metrics, system_metrics, pc, metrics, now, ret, prev,
                   workers, reader>>

NextSessions ==
    \/ /\ ret = Idle /\ handles.collector = "open" /\ Len(executions) < MaxRows
       /\ \E pipeline_name \in {PyStr(<<"e">>), PyStr(<<" ">>)}, commit_ok \in BOOLEAN :
            RecordPipelineExecution(pipeline_name, "success", PyDateTime(0), PyNone,
                                    PyInt(0), PyNone, commit_ok)
    \/ CollectorClose
    \/ /\ ret = Idle
       /\ \E db_ok \in BOOLEAN : GetPipelines(PyStr(<<"1">>), db_ok)
    \/ /\ ret = Idle
       /\ \E days_param \in {PyStr(<<"1">>), PyStr(<<"0">>)}, db_ok \in BOOLEAN :
            SummaryBegin(days_param, db_ok)
    \/ SummaryCountTotal
    \/ SummaryCountSuccess
    \/ SummaryAverage
    \/ SummaryCountPipelines
    \/ TakeResult
    \/ /\ Len(executions) + Cardinality(Pending) < MaxRows
       /\ \E w \in Workers, pipeline_name \in {PyStr(<<"e">>), PyStr(<<" ">>)} :
            WorkerAdd(w, pipeline_name, "success", PyDateTime(0), PyNone, PyInt(0), PyNone)
    \/ \E w \in Workers, commit_ok \in BOOLEAN : WorkerCommit(w, commit_ok)
    \/ \E w \in Workers : WorkerClose(w)

SpecSessions == Init /\ [][NextSessions]_vars

\* C21: every operation gets a session of its own and closes it before it
\* returns, however it ends: a recorder call on a collector finds the
\* collector's session not yet open, so shared with no earlier call, and
\* leaves it closed; a summary request that has answered has closed its
\* session; a worker's request that has ended has closed its collector's.
C21_SessionPerOperation ==
    [][/\ (ret' # ret /\ ret'.op \in RecorderOps) =>
             handles.collector = "closed" /\ handles'.collector = "closed"
       /\ (ret' # ret /\ ret'.op = "get_metrics_summary") => handles'.reader = "closed"
       /\ \A w \in Workers :
             /\ (workers[w].pc = "idle" /\ workers'[w].pc # "idle") =>
                    handles.workers[w] = "closed"
             /\ (workers[w].pc # "idle" /\ workers'[w].pc = "idle") =>
                    handles'.workers[w] = "closed"]_vars

----------------------------------------------------------------------------
(* The average duration over runs that end when they start                  *)

NextAverage ==
    \/ /\ ret = Idle /\ Len(executions) < MaxRows
       /\ \E status \in {"success", "failed"},
             end_time \in {PyNone, PyDateTime(0), PyDateTime(100)} :
            RecordPipelineExecution(PyStr(<<"e">>), status, PyDateTime(0), end_time,
                                    PyInt(0), PyNone, TRUE)
    \/ /\ ret = Idle
       /\ \E db_ok \in BOOLEAN : GetPipelines(PyStr(<<"1">>), db_ok)
    \/ /\ ret = Idle
       /\ \E db_ok \in BOOLEAN : GetMetricsSummary(PyStr(<<"1">>), db_ok)
    \/ TakeResult

SpecAverage == Init /\ [][NextAverage]_vars

\* avg is absent when no row of rows has a duration and is the mean of the
\* durations the rows have when one has, a mean of 0 included
MeanOrAbsent(avg, rows) ==
    LET known == SelectSeq(rows, HasDuration)
    IN  /\ avg = PyNone <=> known = <<>>
        /\ known # <<>> => avg = Fraction(SumDurations(known), Len(known))

\* C23: the average duration a pipeline's entry of GET /api/pipelines reports,
\* taken over the runs its query averages, and the one the summary reports,
\* taken over the successful runs of the window, is null exactly when none of
\* these runs has a duration, and is otherwise the mean of the durations they
\* have, also when that mean is 0.
C23_ZeroMeanReported ==
    /\ Answered("get_pipelines") =>
          \A entry \in EntriesOf(ret) :
             MeanOrAbsent(entry.avg_duration_seconds,
                          WindowRows(entry.name, ret.args.cutoff_date))
    /\ Answered("get_metrics_summary") =>
          MeanOrAbsent(ret.val.body.avg_duration_seconds,
                       SelectSeq(executions, LAMBDA e : /\ e.start_time >= ret.args.cutoff_date
                                                        /\ e.status = "success"))

----------------------------------------------------------------------------
(* The routes under bad requests and a failing store *)

BodyNames == {Absent, PyStr(<<"e">>), PyStr(<<" ">>), PyInt(5)}
BodyStatuses == {Absent, PyStr(<<"success">>), PyStr(<<"done">>)}
BodyStarts == {Absent, PyStr(<<"5">>), PyStr(<<"5", "Z">>), PyStr(<<"x">>), PyInt(5)}
BodyEnds == {Absent, PyStr(<<"0">>), PyStr(<<"9">>), PyStr(<<"x">>)}
BodyCounts == {Absent, PyInt(-1), PyFloat(5)}
BodyMessages == {Absent, PyText(5), PyInt(7)}

Bodies ==
    [pipeline_name : BodyNames, status : BodyStatuses, start_time : BodyStarts,
     end_time : BodyEnds, records_processed : BodyCounts, error_message : BodyMessages]

NextApi ==
    \/ /\ ret = Idle /\ Len(executions) < MaxRows
       /\ \E is_json \in BOOLEAN, data \in Bodies, commit_ok \in BOOLEAN :
            ApiRecordPipelineExecution(is_json, data, commit_ok)
    \/ /\ ret = Idle
       /\ \E days_param \in DaysInputs, db_ok \in BOOLEAN : GetMetricsSummary(days_param, db_ok)
    \/ TakeResult

SpecApi == Init /\ [][NextApi]_vars

\* a text that reads as a timestamp
IsTimeText(x) == x.t = "str" /\ FromIsoFormat(ReplaceZ(x.s)) # Raises

\* the POST body breaks a rule of the request: it is no JSON or is empty, a
\* required field is missing, or a field has the wrong type or a bad value
BadBody(a) ==
    \/ ~a.is_json
    \/ a.data = EmptyBody
    \/ a.data.pipeline_name.t # "str" \/ Strip(a.data.pipeline_name.s) = <<>>
    \/ a.data.status \notin {PyStr(<<w>>) : w \in ValidStatuses}
    \/ ~IsTimeText(a.data.start_time)
    \/ /\ a.data.end_time \notin {Absent, PyNone}
       /\ \/ ~IsTimeText(a.data.end_time)
          \/ /\ IsTimeText(a.data.start_time)
             /\ LET start_time == FromIsoFormat(ReplaceZ(a.data.start_time.s))
                    end_time == FromIsoFormat(ReplaceZ(a.data.end_time.s))
                IN  start_time.s # end_time.s \/ end_time.v < start_time.v
    \/ /\ a.data.records_processed # Absent
       /\ a.data.records_processed.t # "int" \/ a.data.records_processed.v < 0
    \/ a.data.error_message.t \notin {"absent", "NoneType", "str"}

\* the query parameter is no integer in its range
BadQuery(a) == a.days \notin {PyNone, PyStr(<<"1">>), PyStr(<<"2">>)}

\* C10: a response to a bad request (a bad query parameter, a bad field of the
\* POST /api/pipelines body) has status 400; a response to a good request
\* whose store operation failed has status 503; a response of status 500 is
\* to a good request whose store operation did not fail; and a response
\* reports DatabaseError only when the store failed.
C10_ErrorKinds ==
    /\ ret.op = "POST /api/pipelines" =>
         /\ BadBody(ret.args) => ret.val.status_code = 400
         /\ ~BadBody(ret.args) /\ ~ret.args.commit_ok => ret.val.status_code = 503
         /\ ret.val.status_code = 500 => ~BadBody(ret.args) /\ ret.args.commit_ok
         /\ ret.exc = "DatabaseError" <=> ret.val.status_code = 503
         /\ ret.exc = "DatabaseError" => ~ret.args.commit_ok
    /\ ret.op = "get_metrics_summary" =>
         /\ BadQuery(ret.args) => ret.val.status_code = 400
         /\ ~BadQuery(ret.args) =>
                ret.val.status_code = IF ret.args.db_ok THEN 200 ELSE 503
         /\ ret.exc = "DatabaseError" <=> ret.val.status_code = 503

====
